---- MODULE Spec2Model ----
(***************************************************************************)
(* rtp-stream-cleaner: the video proxy's A->B path (raw mode and fix mode) *)
(* as a state machine.  Packets are byte sequences, as in the Go code; the *)
(* Go index packet[i] is the TLA+ index pkt[i+1].  A uint32 is kept as the *)
(* pair <<high 16 bits, low 16 bits>> so that its arithmetic is exact      *)
(* modulo 2^32.  Times and durations are in microseconds.                  *)
(***************************************************************************)
EXTENDS Integers, Sequences, FiniteSets, TLC

\* ------------------------------------------------------------------ bounds
\* A-leg datagrams read in one behaviour.
MaxPkts == 4

\* ------------------------------------------------------- program constants
\* MAX_FRAME_WAIT_MS and PEER_LEARNING_WINDOW_SEC defaults.
MaxFrameWaitMS == 120
PeerLearningWindowSec == 10
maxFrameWait == MaxFrameWaitMS * 1000
peerLearningWindow == PeerLearningWindowSec * 1000000

\* --------------------------------------------------------- byte arithmetic
Pow16 == 256 * 256

B(pkt, i) == pkt[i + 1]

Uint16(pkt, i) == B(pkt, i) * 256 + B(pkt, i + 1)

Uint32(pkt, i) == <<Uint16(pkt, i), Uint16(pkt, i + 2)>>

PutBytes(pkt, i, bytes) ==
    SubSeq(pkt, 1, i) \o bytes \o SubSeq(pkt, i + Len(bytes) + 1, Len(pkt))

Bytes16(v) == <<v \div 256, v % 256>>

Bytes32(v) == Bytes16(v[1]) \o Bytes16(v[2])

\* uint32 addition of a small non-negative increment, modulo 2^32.
U32Add(v, inc) ==
    LET lo == v[2] + inc
    IN  <<(v[1] + (lo \div Pow16)) % Pow16, lo % Pow16>>

\* v - w modulo 2^32, when the result is below 2^16; otherwise -1.
U32Diff(v, w) ==
    LET lo == v[2] - w[2]
        hi == (v[1] - w[1] - (IF lo < 0 THEN 1 ELSE 0)) % Pow16
    IN  IF hi = 0 THEN lo % Pow16 ELSE -1

U32Less(v, w) == v[1] < w[1] \/ (v[1] = w[1] /\ v[2] < w[2])

\* ------------------------------------------------------------- RTP parser
noHeader == [ok |-> FALSE, PT |-> 0, Seq |-> 0, TS |-> <<0, 0>>,
             SSRC |-> <<0, 0>>, Marker |-> FALSE, HeaderLen |-> 0]

parseRTPHeader(packet) ==
    IF Len(packet) < 12 THEN noHeader
    ELSE IF B(packet, 0) \div 64 # 2 THEN noHeader
    ELSE
      LET cc == B(packet, 0) % 16
          hasExtension == (B(packet, 0) \div 16) % 2 = 1
          headerLen == 12 + cc * 4
          hdr(len) == [ok |-> TRUE,
                       PT |-> B(packet, 1) % 128,
                       Seq |-> Uint16(packet, 2),
                       TS |-> Uint32(packet, 4),
                       SSRC |-> Uint32(packet, 8),
                       Marker |-> B(packet, 1) \div 128 = 1,
                       HeaderLen |-> len]
      IN  IF Len(packet) < headerLen THEN noHeader
          ELSE IF ~hasExtension THEN hdr(headerLen)
          ELSE IF Len(packet) < headerLen + 4 THEN noHeader
          ELSE LET extLenWords == Uint16(packet, headerLen + 2)
                   full == headerLen + 4 + extLenWords * 4
               IN  IF Len(packet) < full THEN noHeader ELSE hdr(full)

\* ----------------------------------------------------------- H.264 parser
noInfo == [ok |-> FALSE, IsSlice |-> FALSE, IsFU |-> FALSE, FUStart |-> FALSE,
           FUEnd |-> FALSE, NALType |-> 0, IsSPS |-> FALSE, IsPPS |-> FALSE,
           IsIDR |-> FALSE]

parseH264(payload) ==
    IF Len(payload) = 0 THEN noInfo
    ELSE
      LET first == payload[1]
          unitType == first % 32
          info(isFU, fuHeader, nal) ==
              [ok |-> TRUE,
               IsSlice |-> nal >= 1 /\ nal <= 5,
               IsFU |-> isFU,
               FUStart |-> isFU /\ (fuHeader \div 128) % 2 = 1,
               FUEnd |-> isFU /\ (fuHeader \div 64) % 2 = 1,
               NALType |-> nal,
               IsSPS |-> nal = 7,
               IsPPS |-> nal = 8,
               IsIDR |-> nal = 5]
      IN  IF unitType = 28
          THEN IF Len(payload) < 2 THEN noInfo
               ELSE info(TRUE, payload[2], payload[2] % 32)
          ELSE info(FALSE, 0, unitType)

isFrameStart(info) ==
    IF ~info.IsSlice THEN FALSE
    ELSE IF info.IsFU THEN info.FUStart
    ELSE TRUE

\* An isFrameEnd that knows fragments only.
isFrameEndOfFU(info) == info.IsSlice /\ info.FUEnd

isFrameEnd(info) ==
    IF ~info.IsSlice THEN FALSE
    ELSE IF info.IsFU THEN info.FUEnd
    ELSE TRUE

noPacket == [ok |-> FALSE, header |-> noHeader, payload |-> <<>>, info |-> noInfo]

\* parseH264Packet once the header has been parsed.
h264PacketOf(packet, header) ==
    IF ~header.ok THEN noPacket
    ELSE IF header.HeaderLen >= Len(packet) THEN noPacket
    ELSE LET payload == SubSeq(packet, header.HeaderLen + 1, Len(packet))
             info == parseH264(payload)
         IN  IF ~info.ok THEN noPacket
             ELSE [ok |-> TRUE, header |-> header, payload |-> payload,
                   info |-> info]

parseH264Packet(packet) == h264PacketOf(packet, parseRTPHeader(packet))

\* ------------------------------------------------------------ state
\* proxy:    the videoProxy struct (frame assembler, parameter sets, sequence
\*           renumbering, learned peer)
\* counters: session.videoCounters (the packet and frame counters)
\* videoDest: session.videoDest, nil or the relay address
\* now:      the wall clock
\* wire:     the writes made on the B socket by the latest A-leg handling, in
\*           order: the bytes, the destination, the call site, whether the
\*           socket accepted the write, and the frames flushed before it
\* session:  the session's last activity and lifecycle state
\* aIn:      the latest datagram read from the A socket, the destination
\*           loopAIn found for it and how loopAIn disposed of it
\* prev:     the proxy and the counters as they were when that datagram was
\*           read
\* door:     the doorphone: the RTP sequence number of its next datagram,
\*           the datagrams it has sent, in order, those of them that
\*           were in the frame buffer when resetFrameBuffer emptied it,
\*           those the B socket accepted, in the order they were written,
\*           and the sequence numbers the B socket saw, in that order
\* cfg:      the configuration the manager passes to newVideoProxy, and the
\*           environment of the run: the arrivals the A socket may see,
\*           whether the API changes the destination, the doorphone's first
\*           sequence number
\* frame:    the access unit the doorphone is sending, as the proxy saw it:
\*           whether it is still open (its first packet started a frame
\*           buffer and its last has not been read), the timestamp chosen
\*           for it, and whether one of its packets has been written to B
\* sess:     the session's media state besides videoDest: the atomics
\*           audioDest, audioEnabled, audioDisabledReason, videoEnabled,
\*           videoDisabledReason and the Media structs Audio and Video
\* audio:    the audioProxy struct (learned peer) and session.audioCounters
\* thr:      where each goroutine stands and what it holds in its locals: the
\*           A-socket loop and the B-socket loop of the proxy under traffic,
\*           the API call in applyRTPDest, the reader in AudioState/VideoState
\* mgr:      the Manager: the session table, the sessions it has created,
\*           the port allocator, the idle timeout, and where the callers of
\*           Create, Delete and Cleanup stand
\* run:      one proxy's context, sockets and workers (the two read loops and
\*           the stats loop), and where a caller of stop() stands
\* pool:     a PortAllocator under calls of Allocate and Release, the ports
\*           its callers hold, and what the latest call was given and returned
\* log:      what the goroutines have done: the writes on either socket, the
\*           snapshot the reader returned, the latest answer of
\*           updateDoorphonePeer, the number of reads, calls and snapshots
VARIABLES proxy, counters, session, videoDest, now, wire, aIn, prev, door, cfg,
          frame, sess, audio, thr, log, mgr, run, pool

videoVars == <<proxy, counters, session, videoDest, now, wire, aIn, prev, door,
               cfg, frame>>

legVars == <<sess, audio, thr, log>>

vars == <<videoVars, legVars, mgr, run, pool>>

\* A nil byte slice, a nil *net.UDPAddr and the zero time.Time.
nil == <<>>

noAddr == [ip |-> "", port |-> 0]

zeroTime == 0 - 1

RelayAddr == [ip |-> "relay", port |-> 40000]

DoorAddr == [ip |-> "door", port |-> 5004]

ReboundAddr == [ip |-> "door", port |-> 5006]

\* The state record the helper operators thread through one handling:
\* p the proxy, c the counters, wire the writes so far, werr whether the B
\* socket refuses writes during this handling.
Machine(p, c, werr) == [p |-> p, c |-> c, wire |-> <<>>, werr |-> werr]

newVideoProxy(peerWindow, frameWait, fixEnabled, injectCachedSPSPPS) ==
    [peerLearningWindow |-> peerWindow,
     maxFrameWait |-> frameWait,
     doorphonePeer |-> noAddr,
     doorphoneLearnedAt |-> zeroTime,
     frameBuffer |-> <<>>,
     frameBufferStart |-> zeroTime,
     frameBufferActive |-> FALSE,
     lastFrameSentTime |-> zeroTime,
     frameTS |-> <<0, 0>>,
     frameTSInitialized |-> FALSE,
     currentFrameTS |-> <<0, 0>>,
     currentFrameTSSet |-> FALSE,
     fixEnabled |-> fixEnabled,
     pendingSPS |-> nil,
     pendingPPS |-> nil,
     cachedSPS |-> nil,
     cachedPPS |-> nil,
     injectCachedSPSPPS |-> IF ~fixEnabled THEN FALSE ELSE injectCachedSPSPPS,
     seqDelta |-> 0,
     lastOutSeq |-> 0,
     hasLastOutSeq |-> FALSE]

videoCounters ==
    [aInPkts |-> 0, bOutPkts |-> 0,
     videoFramesStarted |-> 0, videoFramesEnded |-> 0,
     videoFramesFlushed |-> 0, videoForcedFlushes |-> 0,
     videoInjectedSPS |-> 0, videoInjectedPPS |-> 0, videoSeqDelta |-> 0,
     bInPkts |-> 0, aOutPkts |-> 0]

\* ------------------------------------------------------- packet rewriting
\* setMarker without its effect: the marker bit stays as it was received.
setMarkerKeep(packet, marker) == packet

setMarker(packet, marker) ==
    IF Len(packet) < 2 THEN packet
    ELSE IF marker THEN PutBytes(packet, 1, <<(B(packet, 1) % 128) + 128>>)
    ELSE PutBytes(packet, 1, <<B(packet, 1) % 128>>)

setTimestamp(packet, timestamp) ==
    IF Len(packet) < 8 THEN packet
    ELSE PutBytes(packet, 4, Bytes32(timestamp))

\* The write on the B socket; the socket's answer is m.werr.  Each write is
\* recorded with its call site and the number of frames flushed before it.
writeToDest(m, packet, dest, site) ==
    [m EXCEPT !.wire = Append(@, [pkt |-> packet, dest |-> dest,
                                  site |-> site, ok |-> ~m.werr,
                                  nth |-> m.c.videoFramesFlushed])]

\* Returns the rewritten packet with the proxy that remembers its number.
rewriteSeqForOutput(m, packet) ==
    IF Len(packet) < 4 THEN [m |-> m, packet |-> packet]
    ELSE LET seqIn == Uint16(packet, 2)
             seqOut == (seqIn + m.p.seqDelta) % Pow16
         IN  [m |-> [m EXCEPT !.p.lastOutSeq = seqOut,
                              !.p.hasLastOutSeq = TRUE],
              packet |-> PutBytes(packet, 2, Bytes16(seqOut))]

\* The counting of a write the socket accepted: bOutPkts.Add(1).
countWrite(w) ==
    IF w.werr THEN w
    ELSE [w EXCEPT !.c.bOutPkts = @ + 1]

\* The write of a packet rewriteSeqForOutput returned.
writeRewritten(r, dest, site) == writeToDest(r.m, r.packet, dest, site)

\* sendPacket that always renumbers, by one more than the proxy's delta.
sendPacketShifted(m, packet, dest, site) ==
    countWrite(writeToDest(m,
                           IF Len(packet) < 4 THEN packet
                           ELSE PutBytes(packet, 2,
                                         Bytes16((Uint16(packet, 2)
                                                  + m.p.seqDelta + 1) % Pow16)),
                           dest, site))

sendPacket(m, packet, dest, site) ==
    countWrite(writeRewritten(IF m.p.injectCachedSPSPPS
                              THEN rewriteSeqForOutput(m, packet)
                              ELSE [m |-> m, packet |-> packet],
                              dest, site))

\* forwardRawPacket that asserts the marker bit before it forwards.
forwardRawPacketMarked(m, packet, dest) ==
    countWrite(writeToDest(m, setMarker(packet, TRUE), dest, "raw"))

forwardRawPacket(m, packet, dest) ==
    countWrite(writeToDest(m, packet, dest, "raw"))

\* ------------------------------------------------------- frame timestamps
\* uint32((dt.Seconds() * 90000) + 0.5) for dt in microseconds.
increment(dt) == (dt * 9 + 50) \div 100

\* nextFrameTimestamp without the clamp of dt to [10 ms, 100 ms].
nextFrameTimestampNoClamp(m, t, seedPacket) ==
    IF ~m.p.frameTSInitialized
    THEN LET header == parseRTPHeader(seedPacket)
         IN  [m EXCEPT !.p.frameTS = IF header.ok THEN header.TS ELSE @,
                       !.p.frameTSInitialized = TRUE,
                       !.p.lastFrameSentTime = t]
    ELSE [m EXCEPT !.p.frameTS = U32Add(@, increment(t - m.p.lastFrameSentTime)),
                   !.p.lastFrameSentTime = t]

nextFrameTimestamp(m, t, seedPacket) ==
    IF ~m.p.frameTSInitialized
    THEN LET header == parseRTPHeader(seedPacket)
         IN  [m EXCEPT !.p.frameTS = IF header.ok THEN header.TS ELSE @,
                       !.p.frameTSInitialized = TRUE,
                       !.p.lastFrameSentTime = t]
    ELSE LET dt0 == t - m.p.lastFrameSentTime
             dt1 == IF dt0 < 10000 THEN 10000 ELSE dt0
             dt == IF dt1 > 100000 THEN 100000 ELSE dt1
         IN  [m EXCEPT !.p.frameTS = U32Add(@, increment(dt)),
                       !.p.lastFrameSentTime = t]

\* -------------------------------------------------------- frame assembler
\* startFrameBuffer after its call of nextFrameTimestamp.
frameBufferStarted(m1, t) ==
    [m1 EXCEPT !.p.frameBuffer = <<>>,
               !.p.frameBufferStart = t,
               !.p.frameBufferActive = TRUE,
               !.p.currentFrameTS = m1.p.frameTS,
               !.p.currentFrameTSSet = TRUE]

startFrameBuffer(m, t, seedPacket) ==
    frameBufferStarted(nextFrameTimestamp(m, t, seedPacket), t)

\* A bufferFramePacket that puts the packet at the head of the buffer.
bufferFramePacketFirst(m, packet) ==
    [m EXCEPT !.p.frameBuffer = <<packet>> \o @]

bufferFramePacket(m, packet) ==
    [m EXCEPT !.p.frameBuffer = Append(@, packet)]

storePendingParameterSet(m, packet, isSPS) ==
    IF isSPS THEN [m EXCEPT !.p.pendingSPS = packet]
    ELSE [m EXCEPT !.p.pendingPPS = packet]

cacheParameterSet(m, payload, isSPS) ==
    IF isSPS THEN [m EXCEPT !.p.cachedSPS = payload]
    ELSE [m EXCEPT !.p.cachedPPS = payload]

\* appendPendingToFrameBuffer that forgets the pending parameter sets instead
\* of buffering them.
appendPendingDiscarded(m) ==
    [m EXCEPT !.p.pendingSPS = nil, !.p.pendingPPS = nil]

\* appendPendingToFrameBuffer that buffers the pending PPS before the SPS.
appendPendingPPSFirst(m) ==
    LET m1 == IF m.p.pendingPPS # nil
              THEN [m EXCEPT !.p.frameBuffer = Append(@, m.p.pendingPPS),
                             !.p.pendingPPS = nil]
              ELSE m
    IN  IF m1.p.pendingSPS # nil
        THEN [m1 EXCEPT !.p.frameBuffer = Append(@, m1.p.pendingSPS),
                        !.p.pendingSPS = nil]
        ELSE m1

\* appendPendingToFrameBuffer that buffers the pending parameter sets and
\* keeps them pending.
appendPendingKept(m) ==
    LET m1 == IF m.p.pendingSPS # nil
              THEN [m EXCEPT !.p.frameBuffer = Append(@, m.p.pendingSPS)]
              ELSE m
    IN  IF m1.p.pendingPPS # nil
        THEN [m1 EXCEPT !.p.frameBuffer = Append(@, m1.p.pendingPPS)]
        ELSE m1

appendPendingToFrameBuffer(m) ==
    LET m1 == IF m.p.pendingSPS # nil
              THEN [m EXCEPT !.p.frameBuffer = Append(@, m.p.pendingSPS),
                             !.p.pendingSPS = nil]
              ELSE m
    IN  IF m1.p.pendingPPS # nil
        THEN [m1 EXCEPT !.p.frameBuffer = Append(@, m1.p.pendingPPS),
                        !.p.pendingPPS = nil]
        ELSE m1

\* resetFrameBuffer that leaves the buffered packets where they are.
resetFrameBufferKeeping(m) ==
    [m EXCEPT !.p.frameBufferActive = FALSE,
              !.p.frameBufferStart = zeroTime,
              !.p.currentFrameTSSet = FALSE]

resetFrameBuffer(m) ==
    [m EXCEPT !.p.frameBufferActive = FALSE,
              !.p.frameBuffer = <<>>,
              !.p.frameBufferStart = zeroTime,
              !.p.currentFrameTSSet = FALSE]

\* The loop of flushFrameBuffer over the buffered packets, from index i.
RECURSIVE flushLoop(_, _, _, _, _, _)
flushLoop(m, buffered, i, frameTS, dest, site) ==
    IF i > Len(buffered) THEN m
    ELSE LET packet == setTimestamp(setMarker(buffered[i], i = Len(buffered)),
                                    frameTS)
         IN  flushLoop(sendPacket(m, packet, dest, site), buffered, i + 1,
                       frameTS, dest, site)

\* A flush that empties the buffer and leaves the assembler active.
flushStampedStillActive(m0, frameTS, dest, forced) ==
    [flushLoop(m0, m0.p.frameBuffer, 1, frameTS, dest,
               IF forced THEN "forced" ELSE "flush")
       EXCEPT !.c.videoFramesFlushed = @ + 1,
              !.c.videoForcedFlushes = IF forced THEN @ + 1 ELSE @,
              !.p.currentFrameTSSet = FALSE,
              !.p.frameBuffer = <<>>]

\* flushFrameBuffer once the frame's timestamp is known: the loop, the
\* counters and the reset of the buffer.
flushStamped(m0, frameTS, dest, forced) ==
    [flushLoop(m0, m0.p.frameBuffer, 1, frameTS, dest,
               IF forced THEN "forced" ELSE "flush")
       EXCEPT !.c.videoFramesFlushed = @ + 1,
              !.c.videoForcedFlushes = IF forced THEN @ + 1 ELSE @,
              !.p.frameBufferActive = FALSE,
              !.p.currentFrameTSSet = FALSE,
              !.p.frameBuffer = <<>>]

\* flushFrameBuffer after it had to call nextFrameTimestamp.
flushNewlyStamped(m0, dest, forced) ==
    flushStamped(m0, m0.p.frameTS, dest, forced)

flushFrameBuffer(m, t, dest, forced) ==
    IF Len(m.p.frameBuffer) = 0
    THEN [m EXCEPT !.p.frameBufferActive = FALSE]
    ELSE IF ~m.p.currentFrameTSSet
    THEN flushNewlyStamped(nextFrameTimestamp(m, t, m.p.frameBuffer[1]),
                           dest, forced)
    ELSE flushStamped(m, m.p.currentFrameTS, dest, forced)

\* flushOnTimeout that already flushes at exactly maxFrameWait.
flushOnTimeoutEager(m, t, dest) ==
    IF ~m.p.frameBufferActive \/ Len(m.p.frameBuffer) = 0 THEN m
    ELSE IF t - m.p.frameBufferStart < m.p.maxFrameWait THEN m
    ELSE flushFrameBuffer(m, t, dest, TRUE)

flushOnTimeout(m, t, dest) ==
    IF ~m.p.frameBufferActive \/ Len(m.p.frameBuffer) = 0 THEN m
    ELSE IF t - m.p.frameBufferStart <= m.p.maxFrameWait THEN m
    ELSE flushFrameBuffer(m, t, dest, TRUE)

\* ------------------------------------------- cached parameter set injection
ensureSeqBaseline(m, seq) ==
    IF m.p.hasLastOutSeq THEN m
    ELSE [m EXCEPT !.p.lastOutSeq = (seq - 1) % Pow16,
                   !.p.hasLastOutSeq = TRUE]

\* The packet sendInjectedPacket builds: a 12-byte header with the next
\* output sequence number and the frame's timestamp, then the payload.
injectedPacket(m, payload, header) ==
    <<128, header.PT % 128>> \o Bytes16((m.p.lastOutSeq + 1) % Pow16)
    \o Bytes32(m.p.currentFrameTS) \o Bytes32(header.SSRC) \o payload

\* sendInjectedPacket without the advance of seqDelta.
sendInjectedPacketNoDelta(m, payload, header, dest, isSPS) ==
    IF m.werr
    THEN writeToDest(m, injectedPacket(m, payload, header), dest, "inject")
    ELSE [writeToDest(m, injectedPacket(m, payload, header), dest, "inject")
            EXCEPT !.c.bOutPkts = @ + 1,
                   !.p.lastOutSeq = (m.p.lastOutSeq + 1) % Pow16,
                   !.p.hasLastOutSeq = TRUE,
                   !.c.videoInjectedSPS = IF isSPS THEN @ + 1 ELSE @,
                   !.c.videoInjectedPPS = IF isSPS THEN @ ELSE @ + 1]

sendInjectedPacket(m, payload, header, dest, isSPS) ==
    IF m.werr
    THEN writeToDest(m, injectedPacket(m, payload, header), dest, "inject")
    ELSE [writeToDest(m, injectedPacket(m, payload, header), dest, "inject")
            EXCEPT !.c.bOutPkts = @ + 1,
                   !.p.lastOutSeq = (m.p.lastOutSeq + 1) % Pow16,
                   !.p.hasLastOutSeq = TRUE,
                   !.p.seqDelta = (m.p.seqDelta + 1) % Pow16,
                   !.c.videoSeqDelta = (m.p.seqDelta + 1) % Pow16,
                   !.c.videoInjectedSPS = IF isSPS THEN @ + 1 ELSE @,
                   !.c.videoInjectedPPS = IF isSPS THEN @ ELSE @ + 1]

\* The two sends of injectCachedParameterSets.
injectSPS(m, header, dest) ==
    IF m.p.cachedSPS # nil
    THEN sendInjectedPacket(m, m.p.cachedSPS, header, dest, TRUE)
    ELSE m

injectPPS(m, header, dest) ==
    IF m.p.cachedPPS # nil
    THEN sendInjectedPacket(m, m.p.cachedPPS, header, dest, FALSE)
    ELSE m

\* injectCachedParameterSets without the test for pending parameter sets.
injectCachedIgnoringPending(m, header, dest) ==
    IF ~m.p.injectCachedSPSPPS THEN m
    ELSE IF m.p.cachedSPS = nil /\ m.p.cachedPPS = nil THEN m
    ELSE injectPPS(injectSPS(ensureSeqBaseline(m, header.Seq), header, dest),
                   header, dest)

injectCachedParameterSets(m, header, dest) ==
    IF ~m.p.injectCachedSPSPPS THEN m
    ELSE IF m.p.pendingSPS # nil \/ m.p.pendingPPS # nil THEN m
    ELSE IF m.p.cachedSPS = nil /\ m.p.cachedPPS = nil THEN m
    ELSE injectPPS(injectSPS(ensureSeqBaseline(m, header.Seq), header, dest),
                   header, dest)

\* ------------------------------------------------------ per-packet handling
\* analyzeFrameBoundaries once the packet has been parsed.
countBoundaries(m, pk) ==
    IF ~pk.ok THEN m
    ELSE [m EXCEPT !.c.videoFramesStarted =
                       IF isFrameStart(pk.info) THEN @ + 1 ELSE @,
                   !.c.videoFramesEnded =
                       IF isFrameEnd(pk.info) THEN @ + 1 ELSE @]

analyzeFrameBoundaries(m, packet) == countBoundaries(m, parseH264Packet(packet))

\* A passThrough that clears the marker bit of what it sends.
passThroughUnmarked(m, packet, dest, t) ==
    sendPacket(flushOnTimeout(m, t, dest), setMarker(packet, FALSE), dest,
               "pass")

\* The last two statements of handleVideoPacket.
passThrough(m, packet, dest, t) ==
    sendPacket(flushOnTimeout(m, t, dest), packet, dest, "pass")

\* The frame-start block of the slice branch, statement by statement: the
\* natural flush of the frame assembled before, startFrameBuffer, the
\* injection before an IDR, appendPendingToFrameBuffer.
flushIfAssembling(m, t, dest) ==
    IF m.p.frameBufferActive /\ Len(m.p.frameBuffer) > 0
    THEN flushFrameBuffer(m, t, dest, FALSE)
    ELSE m

injectIfIDR(m, packetInfo, dest) ==
    IF packetInfo.info.IsIDR
    THEN injectCachedParameterSets(m, packetInfo.header, dest)
    ELSE m

\* A frame-start block that runs only when no frame is being assembled.
frameStartWhenIdle(m, packet, packetInfo, dest, t) ==
    IF isFrameStart(packetInfo.info) /\ ~m.p.frameBufferActive
    THEN appendPendingToFrameBuffer(
             injectIfIDR(startFrameBuffer(flushIfAssembling(m, t, dest), t, packet),
                         packetInfo, dest))
    ELSE m

frameStart(m, packet, packetInfo, dest, t) ==
    IF isFrameStart(packetInfo.info)
    THEN appendPendingToFrameBuffer(
             injectIfIDR(startFrameBuffer(flushIfAssembling(m, t, dest), t, packet),
                         packetInfo, dest))
    ELSE m

\* The slice branch of handleVideoPacket up to its test of frameBufferActive.
sliceStart(m, packet, packetInfo, dest, t) ==
    frameStart(flushOnTimeout(m, t, dest), packet, packetInfo, dest, t)

\* The flush of a frame whose last packet was just buffered.
flushIfFrameEnd(m, packetInfo, dest, t) ==
    IF isFrameEnd(packetInfo.info)
    THEN flushFrameBuffer(m, t, dest, FALSE)
    ELSE m

\* The slice branch from its test of frameBufferActive: the slice is
\* buffered, or falls through to the end of handleVideoPacket.
sliceRest(m, packet, packetInfo, dest, t) ==
    IF m.p.frameBufferActive
    THEN flushIfFrameEnd(bufferFramePacket(m, packet), packetInfo, dest, t)
    ELSE passThrough(m, packet, dest, t)

\* The SPS/PPS branch from its test of frameBufferActive.
bufferOrStore(m, packet, isSPS) ==
    IF m.p.frameBufferActive
    THEN bufferFramePacket(m, packet)
    ELSE storePendingParameterSet(m, packet, isSPS)

\* The SPS/PPS branch of handleVideoPacket.
parameterSet(m, packet, packetInfo, dest, t) ==
    bufferOrStore(flushOnTimeout(cacheParameterSet(m, packetInfo.payload,
                                                   packetInfo.info.IsSPS),
                                 t, dest),
                  packet, packetInfo.info.IsSPS)

\* handleVideoPacket after its call of parseH264Packet.
handleParsed(m, packet, packetInfo, dest, t) ==
    IF ~packetInfo.ok THEN passThrough(m, packet, dest, t)
    ELSE IF packetInfo.info.IsSlice
    THEN sliceRest(sliceStart(m, packet, packetInfo, dest, t), packet,
                   packetInfo, dest, t)
    ELSE IF packetInfo.info.IsSPS \/ packetInfo.info.IsPPS
    THEN parameterSet(m, packet, packetInfo, dest, t)
    ELSE passThrough(m, packet, dest, t)

handleVideoPacket(m, packet, dest, t) ==
    handleParsed(m, packet, parseH264Packet(packet), dest, t)

\* ------------------------------------------------------------ peer learning
\* Returns the proxy with the peer it now holds, and whether the datagram is
\* accepted.
\* updateDoorphonePeer that restarts the learning window at each replacement.
updateDoorphonePeerSliding(m, addr, t) ==
    IF addr = noAddr THEN [m |-> m, ok |-> FALSE]
    ELSE IF m.p.doorphonePeer = noAddr
            \/ (m.p.doorphonePeer # addr
                /\ t - m.p.doorphoneLearnedAt <= m.p.peerLearningWindow)
    THEN [m |-> [m EXCEPT !.p.doorphonePeer = addr,
                          !.p.doorphoneLearnedAt = t],
          ok |-> TRUE]
    ELSE [m |-> m, ok |-> m.p.doorphonePeer = addr]

updateDoorphonePeer(m, addr, t) ==
    IF addr = noAddr THEN [m |-> m, ok |-> FALSE]
    ELSE IF m.p.doorphonePeer = noAddr
    THEN [m |-> [m EXCEPT !.p.doorphonePeer = addr,
                          !.p.doorphoneLearnedAt = t],
          ok |-> TRUE]
    ELSE IF m.p.doorphonePeer.ip = addr.ip /\ m.p.doorphonePeer.port = addr.port
    THEN [m |-> m, ok |-> TRUE]
    ELSE IF t - m.p.doorphoneLearnedAt <= m.p.peerLearningWindow
    THEN [m |-> [m EXCEPT !.p.doorphonePeer = addr], ok |-> TRUE]
    ELSE [m |-> m, ok |-> FALSE]

\* A markActivity that stores the active state whatever the state was.
markActivityStore(s, t) ==
    [s EXCEPT !.lastActivityNsec = t, !.state = "active"]

markActivity(s, t) ==
    [s EXCEPT !.lastActivityNsec = t,
              !.state = IF @ = "created" THEN "active" ELSE @]

\* ------------------------------------------------------------- environment
\* The doorphone's datagrams, built as the repository's tests build them.
buildRTPPacket(marker, payloadType, seq, ts, ssrc, payload) ==
    <<128, (IF marker THEN 128 ELSE 0) + (payloadType % 128)>>
    \o Bytes16(seq) \o Bytes32(ts) \o Bytes32(ssrc) \o payload

\* The SSRC 0x11223344.
TestSSRC == <<17 * 256 + 34, 51 * 256 + 68>>

\* Payload type 96, that SSRC, marker clear.
makeRTPPacket(seq, ts, payload) ==
    buildRTPPacket(FALSE, 96, seq, ts, TestSSRC, payload)

\* A timestamp 536 ticks below 2^32.
WrapTS == <<Pow16 - 1, 65000>>

\* Per kind of datagram: input marker bit, input timestamp, H.264 payload.
\*   sps, pps   parameter sets (NAL 7, 8)
\*   idr        single-NAL IDR slice (NAL 5)
\*   fus, fum, fue   FU-A start, middle and end of an IDR slice
\*   fusp, fuep FU-A start and end of a non-IDR slice (NAL 1)
\*   sei        another NAL type (6)
\*   short      a datagram cut to 8 bytes: no RTP header can be read from it
Gram(kind) ==
    CASE kind = "sps" -> [marker |-> FALSE, ts |-> <<0, 9000>>, payload |-> <<103>>]
      [] kind = "pps" -> [marker |-> FALSE, ts |-> <<0, 9000>>, payload |-> <<104>>]
      [] kind = "idr" -> [marker |-> FALSE, ts |-> <<0, 9000>>, payload |-> <<101>>]
      [] kind = "fus" -> [marker |-> TRUE, ts |-> WrapTS, payload |-> <<124, 133>>]
      [] kind = "fum" -> [marker |-> TRUE, ts |-> <<0, 9001>>, payload |-> <<124, 5>>]
      [] kind = "fue" -> [marker |-> FALSE, ts |-> <<0, 2000>>, payload |-> <<124, 69>>]
      [] kind = "fusp" -> [marker |-> TRUE, ts |-> WrapTS, payload |-> <<124, 129>>]
      [] kind = "fuep" -> [marker |-> FALSE, ts |-> <<0, 2000>>, payload |-> <<124, 65>>]
      [] kind = "sei" -> [marker |-> TRUE, ts |-> <<0, 2000>>, payload |-> <<6>>]
      [] kind = "short" -> [marker |-> FALSE, ts |-> <<0, 2000>>, payload |-> <<>>]
      [] kind = "tone" -> [marker |-> FALSE, ts |-> <<0, 160>>, payload |-> <<213>>]

Datagram(kind, seq) ==
    LET g == Gram(kind)
        packet == buildRTPPacket(g.marker, 96, seq, g.ts, TestSSRC, g.payload)
    IN  IF kind = "short" THEN SubSeq(packet, 1, 8) ELSE packet

\* An arrival on the A socket: the kind of datagram, its source address, the
\* time since the previous read, the datagrams of the doorphone lost before
\* it, and whether the B socket refuses writes while it is handled.
Arrival(kind, d) ==
    [kind |-> kind, addr |-> DoorAddr, d |-> d, gap |-> 0, werr |-> FALSE]

\* The silences before a datagram, in microseconds.
Short == 3337

Long == 150000

\* Frames and parameter sets after short and long silences and after a
\* silence of exactly maxFrameWait.
TimingArrivals ==
    { Arrival("fusp", Short), Arrival("fuep", Short), Arrival("idr", Short),
      Arrival("sps", Short), Arrival("fuep", maxFrameWait),
      Arrival("fuep", Long), Arrival("sps", Long), Arrival("sei", Long),
      Arrival("idr", Long) }

\* A stream with parameter sets, IDR and non-IDR frames, other payloads, a
\* sequence gap and a refused write.
StreamArrivals ==
    { Arrival("sps", Short), Arrival("pps", Short), Arrival("idr", Short),
      Arrival("fus", Short), Arrival("sei", Short), Arrival("short", Short),
      [Arrival("idr", Short) EXCEPT !.gap = 1],
      [Arrival("idr", Short) EXCEPT !.werr = TRUE] }

\* A stream during which the API sets and clears the destination and the
\* doorphone's NAT binding changes.
ApiArrivals ==
    { Arrival("fus", Short), Arrival("fue", Short), Arrival("idr", Short),
      Arrival("sps", Short),
      [Arrival("idr", Short) EXCEPT !.addr = ReboundAddr] }

\* history: whether the run keeps the record of all the writes the B socket
\* accepted (door.out, door.emitted).
Env(arrivals, api, seq0) ==
    [arrivals |-> arrivals, api |-> api, seq0 |-> seq0, history |-> FALSE]

\* The runs explored: video_fix and VIDEO_INJECT_CACHED_SPS_PPS with the
\* environment of each.
Setups ==
    { [videoFix |-> TRUE, inject |-> i, env |-> Env(TimingArrivals, FALSE, Pow16 - 2)]
        : i \in BOOLEAN }
    \cup { [videoFix |-> TRUE, inject |-> i, env |-> Env(StreamArrivals, FALSE, 10)]
        : i \in BOOLEAN }
    \cup { [videoFix |-> f, inject |-> TRUE, env |-> Env(ApiArrivals, TRUE, 10)]
        : f \in BOOLEAN }
    \cup { [videoFix |-> FALSE, inject |-> i, env |-> Env(StreamArrivals, FALSE, 10)]
        : i \in BOOLEAN }

NoFrame == [open |-> FALSE, ts |-> <<0, 0>>, out |-> FALSE]

\* The access unit in progress after a datagram of the doorphone was disposed
\* of: fr the unit before it, pk the datagram as parsed, p the proxy and
\* writes the B-socket writes after it.  A frame start that reaches
\* handleVideoPacket opens a unit with the timestamp startFrameBuffer chose; a
\* frame end closes it; a flush while it is open writes its packets.
NextFrame(fr, pk, disp, p, writes) ==
    IF disp = "badpeer" THEN fr
    ELSE IF pk.ok /\ isFrameStart(pk.info)
    THEN IF disp = "fix"
         THEN [open |-> ~isFrameEnd(pk.info), ts |-> p.currentFrameTS,
               out |-> isFrameEnd(pk.info)]
         ELSE NoFrame
    ELSE [fr EXCEPT !.out = @ \/ (fr.open /\ \E i \in 1..Len(writes) :
                                     writes[i].site \in {"flush", "forced"}),
                    !.open = @ /\ ~(pk.ok /\ isFrameEnd(pk.info))]

\* ------------------------------------------------------------ session legs
\* What createWithDest stores in a new session before applyRTPDest.
Media(aPort, bPort, dest, enabled, reason) ==
    [APort |-> aPort, BPort |-> bPort, RTPEngineDest |-> dest,
     Enabled |-> enabled, DisabledReason |-> reason]

newSession ==
    [ID |-> "S1",
     audioDest |-> noAddr, audioEnabled |-> TRUE, audioDisabledReason |-> "",
     videoEnabled |-> TRUE, videoDisabledReason |-> "",
     Audio |-> Media(30000, 30001, noAddr, TRUE, ""),
     Video |-> Media(30002, 30003, noAddr, TRUE, "")]

newAudioProxy(peerWindow) ==
    [peerLearningWindow |-> peerWindow,
     doorphonePeer |-> noAddr,
     doorphoneLearnedAt |-> zeroTime]

audioCounters ==
    [aInPkts |-> 0, bOutPkts |-> 0, bInPkts |-> 0, aOutPkts |-> 0,
     drops |-> 0, ignoredDisabled |-> 0]

\* The goroutines before their first step.
idleThreads ==
    [a |-> [pc |-> "read", pkt |-> <<>>, addr |-> noAddr, t |-> 0,
            dest |-> noAddr],
     b |-> [pc |-> "read", pkt |-> <<>>, addr |-> noAddr, dest |-> noAddr,
            peer |-> noAddr],
     api |-> [pc |-> "idle", audio |-> noAddr, video |-> noAddr,
              before |-> [sess |-> newSession, videoDest |-> noAddr]],
     view |-> [pc |-> "idle", leg |-> "audio", dest |-> noAddr,
               enabled |-> TRUE, reason |-> ""]]

noLearn ==
    [ran |-> FALSE, ok |-> FALSE, addr |-> noAddr, t |-> 0,
     peer |-> noAddr, learnedAt |-> zeroTime]

emptyLog ==
    [toB |-> <<>>, toA |-> <<>>, seen |-> <<>>, off |-> FALSE,
     learn |-> noLearn, first |-> zeroTime, rejected |-> {}, bIn |-> <<>>,
     nA |-> 0, nB |-> 0, nU |-> 0, nV |-> 0]

\* ------------------------------------------------------------- the manager
\* time.Second, in the model's microseconds.
Second == 1000000

\* The port range of the allocator: room for two sessions.
MinPort == 30000

MaxPort == 30007

\* The calls of Create, Delete and Cleanup, and the steps of the clock.
MaxCalls == 4

MaxTicks == 2

\* The session ids generateID draws, numbered in the order they are drawn.
SessionIDs == 1..MaxCalls

Range(list) == {list[i] : i \in 1..Len(list)}

\* sort.Ints: ascending; the i-th element is the one with fewer than i
\* smaller elements and at least i elements not above it.
SortInts(list) ==
    [i \in 1..Len(list) |->
        CHOOSE v \in Range(list) :
            /\ Cardinality({j \in 1..Len(list) : list[j] < v}) < i
            /\ i <= Cardinality({j \in 1..Len(list) : list[j] <= v})]

NewPortAllocator(minPort, maxPort) ==
    [min |-> minPort, max |-> maxPort,
     available |-> [i \in 1..(maxPort - minPort + 1) |-> minPort + i - 1],
     inUse |-> {}]

\* An Allocate that hands out the last ports of the available list.
AllocateFromEnd(p, count) ==
    IF count <= 0
    THEN [ports |-> <<>>, err |-> "invalid port request size", p |-> p]
    ELSE IF count > Len(p.available)
    THEN [ports |-> <<>>, err |-> "no available ports", p |-> p]
    ELSE [ports |-> SubSeq(p.available, Len(p.available) - count + 1,
                           Len(p.available)),
          err |-> "",
          p |-> [p EXCEPT !.available = SubSeq(@, 1, Len(@) - count),
                          !.inUse = @ \cup Range(SubSeq(p.available,
                                         Len(p.available) - count + 1,
                                         Len(p.available)))]]

\* An Allocate that takes what is available before it fails.
AllocatePartial(p, count) ==
    IF count <= 0
    THEN [ports |-> <<>>, err |-> "invalid port request size", p |-> p]
    ELSE IF count > Len(p.available)
    THEN [ports |-> <<>>, err |-> "no available ports",
          p |-> [p EXCEPT !.available = <<>>,
                          !.inUse = @ \cup Range(p.available)]]
    ELSE [ports |-> SubSeq(p.available, 1, count), err |-> "",
          p |-> [p EXCEPT !.available = SubSeq(@, count + 1, Len(@)),
                          !.inUse = @ \cup Range(SubSeq(p.available, 1,
                                                        count))]]

\* An Allocate that returns its ports in descending order.
AllocateDescending(p, count) ==
    IF count <= 0
    THEN [ports |-> <<>>, err |-> "invalid port request size", p |-> p]
    ELSE IF count > Len(p.available)
    THEN [ports |-> <<>>, err |-> "no available ports", p |-> p]
    ELSE [ports |-> [i \in 1..count |-> p.available[count + 1 - i]],
          err |-> "",
          p |-> [p EXCEPT !.available = SubSeq(@, count + 1, Len(@)),
                          !.inUse = @ \cup Range(SubSeq(p.available, 1,
                                                        count))]]

\* PortAllocator.Allocate: the ports, the error and the allocator it leaves.
Allocate(p, count) ==
    IF count <= 0
    THEN [ports |-> <<>>, err |-> "invalid port request size", p |-> p]
    ELSE IF count > Len(p.available)
    THEN [ports |-> <<>>, err |-> "no available ports", p |-> p]
    ELSE [ports |-> SubSeq(p.available, 1, count), err |-> "",
          p |-> [p EXCEPT !.available = SubSeq(@, count + 1, Len(@)),
                          !.inUse = @ \cup Range(SubSeq(p.available, 1,
                                                        count))]]

\* A Release loop without the in-use test.
RECURSIVE ReleaseEachUnchecked(_, _)
ReleaseEachUnchecked(p, ports) ==
    IF ports = <<>> THEN p
    ELSE IF Head(ports) < p.min \/ Head(ports) > p.max
    THEN ReleaseEachUnchecked([p EXCEPT !.inUse = @ \ {Head(ports)}],
                              Tail(ports))
    ELSE ReleaseEachUnchecked([p EXCEPT !.inUse = @ \ {Head(ports)},
                                        !.available = Append(@, Head(ports))],
                              Tail(ports))

\* The loop of PortAllocator.Release.
RECURSIVE ReleaseEach(_, _)
ReleaseEach(p, ports) ==
    IF ports = <<>> THEN p
    ELSE IF Head(ports) \notin p.inUse THEN ReleaseEach(p, Tail(ports))
    ELSE IF Head(ports) < p.min \/ Head(ports) > p.max
    THEN ReleaseEach([p EXCEPT !.inUse = @ \ {Head(ports)}], Tail(ports))
    ELSE ReleaseEach([p EXCEPT !.inUse = @ \ {Head(ports)},
                               !.available = Append(@, Head(ports))],
                     Tail(ports))

\* A Release without the final sort.
ReleaseUnsorted(p, ports) == ReleaseEach(p, ports)

\* PortAllocator.Release: the loop, then sort.Ints(p.available).
Release(p, ports) ==
    [ReleaseEach(p, ports) EXCEPT !.available = SortInts(@)]

\* A session of the manager: the fields the manager and the proxies' loops
\* use, whether each proxy runs, and the ports whose sockets are open.
NoSession ==
    [ID |-> 0, state |-> "none", lastActivityNsec |-> 0, ports |-> <<>>,
     audioProxy |-> "none", videoProxy |-> "none", open |-> {},
     stops |-> [audio |-> 0, video |-> 0], released |-> 0]

\* createWithDest up to the start of the proxies.  stops counts the calls
\* of stop() on each proxy and released the calls of Release with the
\* session's ports.
StartedSession(id, ports, t) ==
    [ID |-> id, state |-> "created", lastActivityNsec |-> t, ports |-> ports,
     audioProxy |-> "running", videoProxy |-> "running",
     open |-> Range(ports),
     stops |-> [audio |-> 0, video |-> 0], released |-> 0]

\* Session.lastActivity
lastActivity(s) ==
    IF s.lastActivityNsec = 0 THEN zeroTime ELSE s.lastActivityNsec

\* The callers of the manager before their first call: where each stands,
\* the number of calls that have returned, and what the latest returned.
idleCallers ==
    [create |-> [n |-> 0, err |-> "", id |-> 0],
     delete |-> [pc |-> "idle", n |-> 0, id |-> 0, ok |-> FALSE],
     cleanup |-> [pc |-> "idle", n |-> 0, expired |-> {}, id |-> 0],
     reaper |-> [pc |-> "idle", n |-> 0, expired |-> {}, id |-> 0]]

\* newManagerWithDeps, without the reaper: nextTick, the time the reaper's
\* ticker fires next, stays 0.
newManager(idleTimeout) ==
    [sessions |-> {},
     objs |-> [i \in SessionIDs |-> NoSession],
     allocator |-> NewPortAllocator(MinPort, MaxPort),
     idleTimeout |-> idleTimeout,
     ids |-> 0,
     calls |-> 0,
     ticks |-> 0,
     unowned |-> {},
     nextTick |-> 0,
     call |-> idleCallers]

\* ------------------------------------------------------ a proxy's workers
\* The workers of a proxy.
Workers == {"a", "b", "stats"}

\* A UDP socket: whether it is open, and whether its read deadline lies
\* ahead ("later") or has passed ("now").
openConn == [open |-> TRUE, deadline |-> "later"]

\* newAudioProxy / newVideoProxy and start(): the context, the two sockets
\* and the workers at the top of their loops; the stats loop runs only in an
\* audio proxy with a stats interval.  stop is where the caller of stop()
\* stands, atCancel where the workers stood when it cancelled the context,
\* and late whether a worker has read or written after stop() returned.
startedProxy(stats) ==
    [ctx |-> "live",
     conn |-> [a |-> openConn, b |-> openConn],
     worker |-> [a |-> "select", b |-> "select",
                 stats |-> IF stats THEN "select" ELSE "none"],
     stop |-> "idle",
     atCancel |-> [a |-> "", b |-> "", stats |-> ""],
     late |-> FALSE]

\* ------------------------------------------------------ a port allocator
\* The port range of the allocator the calls are made on.
PoolMin == 30000

PoolMax == 30003

\* A port allocator with its callers' bookkeeping: the ports handed out and
\* not given back since, and the latest call: its kind, its argument (count
\* in n, ports in ports), the ports and the error it returned, and the
\* allocator and the bookkeeping it started from.
noPoolCall ==
    [op |-> "none", n |-> 0, ports |-> <<>>, got |-> <<>>, err |-> "",
     before |-> [p |-> NewPortAllocator(PoolMin, PoolMax), held |-> {}]]

newPool ==
    [p |-> NewPortAllocator(PoolMin, PoolMax),
     held |-> {},
     calls |-> 0,
     last |-> noPoolCall]

\* ------------------------------------------------------------------ actions
Init ==
    /\ cfg \in Setups
    /\ proxy = newVideoProxy(peerLearningWindow, maxFrameWait, cfg.videoFix,
                             cfg.inject)
    /\ counters = videoCounters
    /\ session = [lastActivityNsec |-> 0, state |-> "created"]
    /\ videoDest = IF cfg.env.api THEN noAddr ELSE RelayAddr
    /\ now = 0
    /\ wire = <<>>
    /\ aIn = [pkt |-> <<>>, addr |-> noAddr, dest |-> noAddr, disp |-> "none",
              werr |-> FALSE, gap |-> 0]
    /\ prev = [proxy |-> proxy, counters |-> counters, frame |-> NoFrame]
    /\ door = [seq |-> cfg.env.seq0, sent |-> <<>>, discarded |-> {},
              out |-> <<>>, emitted |-> <<>>]
    /\ frame = NoFrame
    /\ sess = newSession
    /\ audio = [p |-> newAudioProxy(peerLearningWindow), c |-> audioCounters]
    /\ thr = idleThreads
    /\ log = emptyLog
    /\ mgr = newManager(0)
    /\ run = startedProxy(FALSE)
    /\ pool = newPool

\* What loopAIn does with a datagram once updateDoorphonePeer has answered
\* u: it drops it (wrong peer, or no destination), handles it in fix mode or
\* forwards it raw.
disposition(u, dest) ==
    IF ~u.ok THEN "badpeer"
    ELSE IF dest = noAddr THEN "nodest"
    ELSE IF u.m.p.fixEnabled THEN "fix"
    ELSE "raw"

dispose(u, packet, dest, t) ==
    [disp |-> disposition(u, dest),
     m |-> CASE disposition(u, dest) = "badpeer" -> u.m
             [] disposition(u, dest) = "nodest" ->
                    IF u.m.p.fixEnabled THEN resetFrameBuffer(u.m) ELSE u.m
             [] disposition(u, dest) = "fix" ->
                    handleVideoPacket(u.m, packet, dest, t)
             [] disposition(u, dest) = "raw" ->
                    forwardRawPacket(u.m, packet, dest)]

\* The counting and the frame analysis at the head of the iteration.
counted(m, packet) ==
    IF m.p.fixEnabled THEN analyzeFrameBoundaries(m, packet) ELSE m

\* One iteration of loopAIn that reads a datagram: packet from addr, read at
\* time t, with the B socket refusing writes or not.
loopAIn(packet, addr, t, werr) ==
    dispose(updateDoorphonePeer(
                counted(Machine(proxy, [counters EXCEPT !.aInPkts = @ + 1], werr),
                        packet),
                addr, t),
            packet, videoDest, t)

\* The received datagrams among the writes of one iteration that the B socket
\* accepted, in the order written, each under the sequence number it was
\* received with and with its call site; delta is seqDelta before the write.
RECURSIVE Forwards(_, _)
Forwards(delta, writes) ==
    IF writes = <<>> THEN <<>>
    ELSE IF Head(writes).site = "inject"
    THEN Forwards(IF Head(writes).ok THEN delta + 1 ELSE delta, Tail(writes))
    ELSE IF ~Head(writes).ok THEN Forwards(delta, Tail(writes))
    ELSE <<[seq |-> (Uint16(Head(writes).pkt, 2) + Pow16 - (delta % Pow16))
                        % Pow16,
            site |-> Head(writes).site]>>
         \o Forwards(delta, Tail(writes))

\* The sequence numbers of the packets of one iteration's writes that the B
\* socket accepted, injected ones included, in the order written.
RECURSIVE Emitted(_)
Emitted(writes) ==
    IF writes = <<>> THEN <<>>
    ELSE IF ~Head(writes).ok THEN Emitted(Tail(writes))
    ELSE <<[seq |-> Uint16(Head(writes).pkt, 2),
            injected |-> Head(writes).site = "inject"]>>
         \o Emitted(Tail(writes))

\* The state after the iteration: r what loopAIn returned for the arrival a
\* carrying packet with the sequence number seq, unit the access unit the
\* doorphone was sending.
Read(a, seq, packet, r, unit) ==
    /\ now' = now + a.d
    /\ door' = [seq |-> (seq + 1) % Pow16,
                sent |-> Append(door.sent, packet),
                discarded |-> door.discarded \cup
                    IF r.disp = "nodest" /\ proxy.fixEnabled
                    THEN {proxy.frameBuffer[i] : i \in 1..Len(proxy.frameBuffer)}
                    ELSE {},
                out |-> IF cfg.env.history
                        THEN door.out \o Forwards(proxy.seqDelta, r.m.wire)
                        ELSE door.out,
                emitted |-> IF cfg.env.history
                            THEN door.emitted \o Emitted(r.m.wire)
                            ELSE door.emitted]
    /\ session' = markActivity(session, now + a.d)
    /\ proxy' = r.m.p
    /\ counters' = r.m.c
    /\ wire' = r.m.wire
    /\ aIn' = [pkt |-> packet, addr |-> a.addr, dest |-> videoDest,
               disp |-> r.disp, werr |-> a.werr, gap |-> a.gap]
    /\ prev' = [proxy |-> proxy, counters |-> counters, frame |-> unit]
    /\ frame' = NextFrame(unit, parseH264Packet(packet), r.disp, r.m.p, r.m.wire)
    /\ UNCHANGED <<videoDest, cfg, mgr, run, pool, legVars>>

Arrive(a, seq, packet) ==
    Read(a, seq, packet, loopAIn(packet, a.addr, now + a.d, a.werr),
         IF a.gap > 0 THEN NoFrame ELSE frame)

RecvA ==
    /\ counters.aInPkts < MaxPkts
    /\ \E a \in cfg.env.arrivals :
          Arrive(a, (door.seq + a.gap) % Pow16,
                 Datagram(a.kind, (door.seq + a.gap) % Pow16))

\* The video half of applyRTPDest: port 0 clears the destination, any other
\* port stores it.
applyRTPDest(dest) ==
    IF dest.port = 0 THEN noAddr ELSE dest

UpdateRTPDest ==
    /\ cfg.env.api
    /\ \E dest \in {RelayAddr, [ip |-> "relay", port |-> 0]} :
          /\ videoDest' = applyRTPDest(dest)
          /\ videoDest' # videoDest
    /\ UNCHANGED <<proxy, counters, session, now, wire, aIn, prev, door, cfg, mgr, run, pool,
                   frame, legVars>>

Next == RecvA \/ UpdateRTPDest

Spec == Init /\ [][Next]_vars

\* --------------------------------------------------------------- observables
\* The fields of an emitted or received packet.
Marker(packet) == B(packet, 1) \div 128 = 1

SeqNo(packet) == Uint16(packet, 2)

TS(packet) == Uint32(packet, 4)

\* What follows the 12-byte header together with the payload type and the
\* SSRC: all that the proxy's rewriting leaves alone.
Body(packet) ==
    <<B(packet, 0), B(packet, 1) % 128>> \o SubSeq(packet, 9, Len(packet))

\* The latest datagram as the H.264 parser sees it.
In == parseH264Packet(aIn.pkt)

\* handleVideoPacket ran on the latest datagram.
Handled == aIn.disp = "fix"

FlushSites == {"flush", "forced"}

\* Writes i and i+1 belong to the same flush of the frame buffer.
SameFlush(i) ==
    /\ i < Len(wire)
    /\ wire[i].site \in FlushSites
    /\ wire[i + 1].site = wire[i].site
    /\ wire[i + 1].nth = wire[i].nth

\* ------------------------------------------------------------------- C1
\* C1: in fix mode every flush of the frame buffer, natural or forced, sets
\* the marker bit on the last packet it emits and clears it on every other
\* packet it emits, whatever the marker bits of the input were.
C1_MarkerOnLastOnly ==
    \A i \in 1..Len(wire) :
        wire[i].site \in FlushSites => (Marker(wire[i].pkt) <=> ~SameFlush(i))

\* A two-packet frame whose first input packet had the marker set and whose
\* last had it clear leaves with the marker on the last only.
C1_Witness ==
    /\ Len(wire) = 2
    /\ SameFlush(1)
    /\ Body(wire[1].pkt) = Body(Datagram("fusp", 0))
    /\ Body(wire[2].pkt) = Body(aIn.pkt)
    /\ ~Marker(aIn.pkt)
    /\ ~Marker(wire[1].pkt)
    /\ Marker(wire[2].pkt)

\* ------------------------------------------------------------------- C2
\* The latest datagram is a slice that continues the open access unit.
Continues ==
    /\ Handled
    /\ In.ok
    /\ In.info.IsSlice
    /\ ~isFrameStart(In.info)
    /\ prev.frame.open

\* C2: in fix mode all packets emitted for one frame carry the frame's
\* timestamp: the packets of one flush share one timestamp, the parameter
\* sets injected at a frame start carry the timestamp chosen for that frame,
\* and a slice that continues a frame of which packets were already emitted
\* leaves with that frame's timestamp.
C2_OneTimestampPerFrame ==
    /\ \A i \in 1..Len(wire) :
          SameFlush(i) => TS(wire[i].pkt) = TS(wire[i + 1].pkt)
    /\ \A i \in 1..Len(wire) :
          wire[i].site = "inject" => TS(wire[i].pkt) = frame.ts
    /\ \A i \in 1..Len(wire) :
          /\ Continues
          /\ wire[i].site = "pass"
          /\ prev.frame.out \/ wire[1].site = "forced"
          => TS(wire[i].pkt) = prev.frame.ts

\* ------------------------------------------------------------------- C3
\* handleVideoPacket started a frame with the latest datagram.
FrameStarted == Handled /\ In.ok /\ isFrameStart(In.info)

\* now - last_frame_sent_time at that start, clamped to [10 ms, 100 ms].
ClampedDt ==
    LET dt == now - prev.proxy.lastFrameSentTime
    IN  IF dt < 10000 THEN 10000 ELSE IF dt > 100000 THEN 100000 ELSE dt

\* n = round(dt * 90000) for dt in microseconds, rounding halves up.
IsRounded(n, dt) == 100 * n <= 9 * dt + 50 /\ 9 * dt + 50 < 100 * n + 100

\* The ticks by which the new frame's timestamp exceeds the previous frame's,
\* modulo 2^32.
Advance == U32Diff(proxy.currentFrameTS, prev.proxy.frameTS)

\* C3 as stated: every frame after the first has a timestamp strictly greater
\* than the previous frame's.
C3_StrictlyGreater ==
    FrameStarted /\ prev.proxy.frameTSInitialized
    => U32Less(prev.proxy.frameTS, proxy.currentFrameTS)

\* C3, amended: the first frame's timestamp is the RTP timestamp of its
\* frame-start packet; every later frame's timestamp exceeds the previous
\* frame's, modulo 2^32, by round(dt * 90000) ticks with dt clamped to
\* [10 ms, 100 ms], between 900 and 9000 ticks; a frame emitted at once
\* carries that timestamp.
C3_AdvanceMod32 ==
    FrameStarted =>
        /\ IF ~prev.proxy.frameTSInitialized
           THEN proxy.currentFrameTS = TS(aIn.pkt)
           ELSE /\ IsRounded(Advance, ClampedDt)
                /\ Advance >= 900
                /\ Advance <= 9000
        /\ proxy.frameTS = proxy.currentFrameTS
        /\ isFrameEnd(In.info) /\ Len(wire) > 0
           => TS(wire[Len(wire)].pkt) = proxy.currentFrameTS

\* A frame started 10.011 ms after the previous one, whose timestamp was 536
\* ticks below 2^32: it advances by 901 ticks and wraps.
C3_Witness ==
    /\ FrameStarted
    /\ prev.proxy.frameTSInitialized
    /\ Advance = 901
    /\ U32Less(proxy.currentFrameTS, prev.proxy.frameTS)
    /\ Len(wire) > 0
    /\ TS(wire[Len(wire)].pkt) = <<0, 365>>

\* ------------------------------------------------------------------- C4
Payload(packet) == SubSeq(packet, 13, Len(packet))

\* An IDR frame start was handled with injection enabled, both parameter
\* sets cached, none pending, and a B socket that accepts the writes.
InjectBoth ==
    /\ FrameStarted
    /\ In.info.IsIDR
    /\ prev.proxy.injectCachedSPSPPS
    /\ prev.proxy.cachedSPS # nil
    /\ prev.proxy.cachedPPS # nil
    /\ prev.proxy.pendingSPS = nil
    /\ prev.proxy.pendingPPS = nil
    /\ ~aIn.werr

\* The sequence number of the last packet output before the write at k: the
\* write before it, or the last_out_seq the proxy held, or, when nothing was
\* output before, the number before the IDR's.
SeqBefore(k) ==
    IF k > 1 THEN SeqNo(wire[k - 1].pkt)
    ELSE IF prev.proxy.hasLastOutSeq THEN prev.proxy.lastOutSeq
    ELSE (SeqNo(aIn.pkt) - 1) % Pow16

\* The write at k is an injected packet with the given payload and sequence
\* number, the frame's timestamp, and the IDR's payload type and SSRC.
InjectedAt(k, payload, seq) ==
    /\ wire[k].site = "inject"
    /\ wire[k].pkt = <<128, In.header.PT>> \o Bytes16(seq)
                     \o Bytes32(proxy.currentFrameTS)
                     \o Bytes32(In.header.SSRC) \o payload

S4Fed ==
    /\ cfg.videoFix
    /\ cfg.inject
    /\ Handled
    /\ counters.aInPkts = 3
    /\ aIn.pkt = makeRTPPacket(12, <<0, 9000>>, <<101>>)
    /\ ~aIn.werr
    /\ prev.proxy.pendingSPS = makeRTPPacket(10, <<0, 9000>>, <<103>>)
    /\ prev.proxy.pendingPPS = makeRTPPacket(11, <<0, 9000>>, <<104>>)

\* The three packets S4 expects on the B leg: SPS, PPS, IDR in that order,
\* consecutive sequence numbers and one timestamp.
S4Output ==
    /\ Len(wire) = 3
    /\ Payload(wire[1].pkt) = <<103>>
    /\ Payload(wire[2].pkt) = <<104>>
    /\ Payload(wire[3].pkt) = <<101>>
    /\ SeqNo(wire[2].pkt) = (SeqNo(wire[1].pkt) + 1) % Pow16
    /\ SeqNo(wire[3].pkt) = (SeqNo(wire[2].pkt) + 1) % Pow16
    /\ TS(wire[1].pkt) = TS(wire[2].pkt)
    /\ TS(wire[2].pkt) = TS(wire[3].pkt)
    /\ counters.bOutPkts = 3

\* C5 as stated: S4 leaves injected_sps = 1, injected_pps = 1, seq_delta = 2.
C5_S4Injects ==
    S4Fed =>
        /\ S4Output
        /\ counters.videoInjectedSPS = 1
        /\ counters.videoInjectedPPS = 1
        /\ counters.videoSeqDelta = 2

\* C5, amended: S4 produces the three packets, but they are the received SPS
\* and PPS, held as pending and flushed with the IDR under the sequence
\* numbers 10, 11, 12 and the timestamp 9000: nothing is injected, and
\* injected_sps, injected_pps and seq_delta stay 0.
C5_S4FlushesPending ==
    S4Fed =>
        /\ S4Output
        /\ \A i \in 1..3 : wire[i].site = "flush" /\ TS(wire[i].pkt) = <<0, 9000>>
        /\ SeqNo(wire[1].pkt) = 10
        /\ counters.videoInjectedSPS = 0
        /\ counters.videoInjectedPPS = 0
        /\ counters.videoSeqDelta = 0
        /\ proxy.seqDelta = 0
        /\ counters.videoFramesFlushed = 1

\* S4 was fed and its three packets were written.
C5_Witness == S4Fed /\ Len(wire) = 3 /\ wire[3].ok

\* ------------------------------------------------------------------- C6
\* The latest datagram came from the peer the proxy holds.
FromPeer ==
    /\ aIn.addr # noAddr
    /\ proxy.doorphonePeer = aIn.addr

\* C6: in raw mode every datagram accepted from the peer while a destination
\* is set is written to it once, byte for byte, and counted in b_out when
\* the socket accepts the write; the proxy is built with injection off
\* whatever the configuration says, nothing is buffered or cached, and the
\* frame, injection and sequence-delta counters stay 0.
C6_RawIsTransparent ==
    ~cfg.videoFix =>
        /\ ~proxy.fixEnabled
        /\ ~proxy.injectCachedSPSPPS
        /\ proxy.frameBuffer = <<>>
        /\ ~proxy.frameBufferActive
        /\ proxy.cachedSPS = nil /\ proxy.cachedPPS = nil
        /\ proxy.pendingSPS = nil /\ proxy.pendingPPS = nil
        /\ counters.videoFramesStarted = 0
        /\ counters.videoFramesEnded = 0
        /\ counters.videoFramesFlushed = 0
        /\ counters.videoForcedFlushes = 0
        /\ counters.videoInjectedSPS = 0
        /\ counters.videoInjectedPPS = 0
        /\ counters.videoSeqDelta = 0
        /\ aIn.disp = "raw" <=> (aIn.pkt # <<>> /\ FromPeer /\ aIn.dest # noAddr)
        /\ aIn.disp = "raw" =>
              /\ Len(wire) = 1
              /\ wire[1].pkt = aIn.pkt
              /\ wire[1].dest = aIn.dest
              /\ counters.bOutPkts
                 = prev.counters.bOutPkts + (IF aIn.werr THEN 0 ELSE 1)
        /\ aIn.disp # "raw" => wire = <<>> /\ counters.bOutPkts = prev.counters.bOutPkts

\* Raw mode with injection configured: an SPS, a PPS and then an IDR with a
\* clear marker bit were each forwarded as received.
C6_Witness ==
    /\ ~cfg.videoFix
    /\ cfg.inject
    /\ aIn.disp = "raw"
    /\ In.ok
    /\ In.info.IsIDR
    /\ ~Marker(aIn.pkt)
    /\ counters.bOutPkts = 3
    /\ wire = <<[pkt |-> aIn.pkt, dest |-> RelayAddr, site |-> "raw",
                 ok |-> TRUE, nth |-> 0]>>

\* ------------------------------------------------------------------- C7
\* A frame was being assembled when the handling of the latest datagram
\* began, more than max_frame_wait after the frame buffer was started.
TimedOut ==
    /\ Handled
    /\ prev.proxy.frameBufferActive
    /\ Len(prev.proxy.frameBuffer) > 0
    /\ now - prev.proxy.frameBufferStart > maxFrameWait

\* The latest datagram is a frame of its own: a single-NAL slice.
WholeFrame == In.ok /\ isFrameStart(In.info) /\ isFrameEnd(In.info)

\* C7: when the handling of a packet begins more than max_frame_wait after
\* the start of the frame being assembled, the buffered packets are written
\* first, in order and with the frame's timestamp, forced_flushes and
\* frames_flushed advance by 1 for it (frames_flushed once more if the
\* packet is itself a whole frame, flushed naturally), and the packet is
\* then processed by an idle assembler; at max_frame_wait or less, nothing
\* is force-flushed.
C7_ForcedFlush ==
    Handled =>
        IF TimedOut
        THEN LET n == Len(prev.proxy.frameBuffer)
             IN  /\ Len(wire) >= n
                 /\ \A i \in 1..n :
                       /\ wire[i].site = "forced"
                       /\ Body(wire[i].pkt) = Body(prev.proxy.frameBuffer[i])
                       /\ TS(wire[i].pkt) = prev.proxy.currentFrameTS
                 /\ \A i \in (n + 1)..Len(wire) : wire[i].site # "forced"
                 /\ counters.videoForcedFlushes
                    = prev.counters.videoForcedFlushes + 1
                 /\ counters.videoFramesFlushed
                    = prev.counters.videoFramesFlushed + 1
                      + (IF WholeFrame THEN 1 ELSE 0)
                 /\ IF In.ok /\ isFrameStart(In.info)
                    THEN proxy.frameBufferStart = now \/ WholeFrame
                    ELSE ~proxy.frameBufferActive /\ proxy.frameBuffer = <<>>
                 /\ In.ok /\ In.info.IsSlice /\ ~isFrameStart(In.info)
                    => wire[n + 1].site = "pass"
                 /\ In.ok /\ In.info.IsSPS => proxy.pendingSPS = aIn.pkt
        ELSE /\ \A i \in 1..Len(wire) : wire[i].site # "forced"
             /\ counters.videoForcedFlushes = prev.counters.videoForcedFlushes

\* Scenario S3: an FU-A start, then a packet more than max_frame_wait later:
\* the start leaves alone with the marker set, forced_flushes = 1 and
\* frames_flushed = 1.
C7_Witness ==
    /\ TimedOut
    /\ counters.aInPkts = 2
    /\ Len(wire) = 2
    /\ wire[1].site = "forced"
    /\ Marker(wire[1].pkt)
    /\ Payload(wire[1].pkt) = <<124, 129>>
    /\ counters.videoForcedFlushes = 1
    /\ counters.videoFramesFlushed = 1

\* ------------------------------------------------------------------- C8
\* The latest datagram is an SPS or PPS processed while no frame is being
\* assembled (none was, or the one that was has just been force-flushed).
ParameterSetBetweenFrames ==
    /\ Handled
    /\ In.ok
    /\ In.info.IsSPS \/ In.info.IsPPS
    /\ ~prev.proxy.frameBufferActive \/ TimedOut

\* The pending parameter sets held when the latest datagram was read, SPS
\* before PPS.
Held ==
    (IF prev.proxy.pendingSPS # nil THEN <<prev.proxy.pendingSPS>> ELSE <<>>)
    \o (IF prev.proxy.pendingPPS # nil THEN <<prev.proxy.pendingPPS>> ELSE <<>>)

\* The writes from..(from + Len(packets) - 1) are one flush of these packets,
\* in order, under the timestamp ts.
FlushedAs(from, packets, ts) ==
    /\ Len(wire) >= from + Len(packets) - 1
    /\ \A i \in 1..Len(packets) :
          /\ wire[from + i - 1].site = "flush"
          /\ Body(wire[from + i - 1].pkt) = Body(packets[i])
          /\ TS(wire[from + i - 1].pkt) = ts
          /\ wire[from + i - 1].nth = wire[from].nth

\* The frame assembled before is flushed naturally by the latest datagram: a
\* frame start, or the frame end that completes it.
NaturalFlush ==
    /\ Handled
    /\ prev.proxy.frameBufferActive
    /\ ~TimedOut
    /\ In.ok
    /\ In.info.IsSlice
    /\ isFrameStart(In.info) \/ isFrameEnd(In.info)

\* C8: an SPS or PPS processed while no frame is being assembled is not
\* written to B; it becomes the pending SPS, or PPS, in place of the one
\* held before.  The frame start that follows moves the pending sets to the
\* head of the new frame buffer, SPS before PPS and before the slice, and
\* holds none after; the buffer leaves in that order under the frame's
\* timestamp, at once for a single-NAL frame and else at the frame's flush.
C8_PendingJoinsNextFrame ==
    /\ ParameterSetBetweenFrames =>
          /\ \A i \in 1..Len(wire) : wire[i].site = "forced"
          /\ ~proxy.frameBufferActive
          /\ proxy.frameBuffer = <<>>
          /\ proxy.pendingSPS
             = IF In.info.IsSPS THEN aIn.pkt ELSE prev.proxy.pendingSPS
          /\ proxy.pendingPPS
             = IF In.info.IsPPS THEN aIn.pkt ELSE prev.proxy.pendingPPS
    /\ FrameStarted =>
          /\ proxy.pendingSPS = nil
          /\ proxy.pendingPPS = nil
          /\ IF isFrameEnd(In.info)
             THEN LET unit == Held \o <<aIn.pkt>>
                  IN  /\ FlushedAs(Len(wire) - Len(unit) + 1, unit,
                                   proxy.currentFrameTS)
                      /\ proxy.frameBuffer = <<>>
             ELSE /\ proxy.frameBuffer = Held \o <<aIn.pkt>>
                  /\ proxy.frameBufferActive
                  /\ proxy.currentFrameTSSet
    /\ NaturalFlush =>
          FlushedAs(1,
                    prev.proxy.frameBuffer
                    \o (IF isFrameStart(In.info) THEN <<>> ELSE <<aIn.pkt>>),
                    prev.proxy.currentFrameTS)

\* An SPS, a newer SPS and a PPS arrived between frames; the frame that
\* followed left as the newer SPS, the PPS and the slice under one timestamp.
C8_Witness ==
    /\ FrameStarted
    /\ counters.aInPkts = 4
    /\ prev.proxy.pendingSPS = Datagram("sps", 11)
    /\ prev.proxy.pendingPPS = Datagram("pps", 12)
    /\ Len(wire) = 3
    /\ Payload(wire[1].pkt) = <<103>>
    /\ SeqNo(wire[1].pkt) = 11
    /\ Payload(wire[2].pkt) = <<104>>
    /\ TS(wire[1].pkt) = TS(wire[3].pkt)
    /\ wire[1].ok

\* ------------------------------------------------------------------- C9
IsParameterSet(packet) ==
    LET pk == parseH264Packet(packet)
    IN  pk.ok /\ (pk.info.IsSPS \/ pk.info.IsPPS)

IsSlicePacket(packet) ==
    LET pk == parseH264Packet(packet)
    IN  pk.ok /\ pk.info.IsSlice

\* C9: no SPS or PPS leaves with the timestamp of a frame that started
\* before it was received.  A flush writes the buffer in the order of
\* arrival under the timestamp chosen when the frame's first slice arrived,
\* so the claim is that no flush writes a parameter set after a slice with
\* the slice's timestamp.
C9_NoEarlierFrameTimestamp ==
    \A i, j \in 1..Len(wire) :
        /\ i < j
        /\ wire[i].site \in FlushSites
        /\ wire[j].site = wire[i].site
        /\ wire[j].nth = wire[i].nth
        /\ IsSlicePacket(wire[i].pkt)
        /\ IsParameterSet(wire[j].pkt)
        => TS(wire[j].pkt) # TS(wire[i].pkt)

\* ------------------------------------------------------------------- C10
\* The handling of the latest datagram sent an injected packet or changed
\* the injection counters or the sequence delta.
Injected ==
    \/ \E i \in 1..Len(wire) : wire[i].site = "inject"
    \/ counters.videoInjectedSPS # prev.counters.videoInjectedSPS
    \/ counters.videoInjectedPPS # prev.counters.videoInjectedPPS
    \/ counters.videoSeqDelta # prev.counters.videoSeqDelta
    \/ proxy.seqDelta # prev.proxy.seqDelta

\* C10: packets are injected, and injected_sps, injected_pps and seq_delta
\* changed, only by the handling of an IDR frame start, with no SPS and no
\* PPS pending, with an SPS or a PPS cached, and with fix mode and injection
\* both enabled; what is injected is the cached payload.
C10_InjectionOnlyAtIDRStart ==
    Injected =>
        /\ cfg.videoFix
        /\ cfg.inject
        /\ FrameStarted
        /\ In.info.IsIDR
        /\ prev.proxy.pendingSPS = nil
        /\ prev.proxy.pendingPPS = nil
        /\ prev.proxy.cachedSPS # nil \/ prev.proxy.cachedPPS # nil
        /\ \A i \in 1..Len(wire) :
              wire[i].site = "inject"
              => Payload(wire[i].pkt) \in {prev.proxy.cachedSPS, prev.proxy.cachedPPS}
                 /\ Payload(wire[i].pkt) # nil

\* With an SPS cached and no PPS, an IDR frame start had the SPS alone
\* injected before it, under the sequence number after 65535.
C10_Witness ==
    /\ Injected
    /\ prev.proxy.cachedPPS = nil
    /\ Len(wire) = 2
    /\ wire[1].site = "inject"
    /\ Payload(wire[1].pkt) = <<103>>
    /\ SeqNo(wire[1].pkt) = 0
    /\ wire[2].site = "flush"
    /\ counters.videoInjectedSPS = 1
    /\ counters.videoInjectedPPS = 0
    /\ counters.videoSeqDelta = 1

\* ------------------------------------------------------------------- C11
\* Injection is off: by configuration, or because raw mode never injects.
InjectionDisabled == ~cfg.inject \/ ~cfg.videoFix

\* The packet was sent by the doorphone with this sequence number: one of
\* its datagrams has the number and, but for marker and timestamp, the bytes.
SentWithSeq(packet) ==
    \E j \in 1..Len(door.sent) :
        /\ SeqNo(door.sent[j]) = SeqNo(packet)
        /\ Body(door.sent[j]) = Body(packet)

\* C11: when injection is disabled, every packet written to B, forwarded raw,
\* passed through in fix mode or flushed from the frame buffer, carries the
\* sequence number it was received with, and seq_delta stays 0.
C11_SeqUnchanged ==
    InjectionDisabled =>
        /\ counters.videoSeqDelta = 0
        /\ proxy.seqDelta = 0
        /\ \A i \in 1..Len(wire) : SentWithSeq(wire[i].pkt)

\* Fix mode without injection: parameter sets held since two datagrams ago
\* leave in one flush with the IDR slice that follows them, each with the
\* number it arrived with, and nothing is injected although a set is cached.
C11_Witness ==
    /\ cfg.videoFix
    /\ ~cfg.inject
    /\ proxy.cachedSPS # nil
    /\ Len(wire) = 3
    /\ \A i \in 1..3 : /\ wire[i].site = "flush"
                       /\ wire[i].ok
                       /\ SeqNo(wire[i].pkt) = SeqNo(door.sent[Len(door.sent) - 3 + i])
                       /\ Body(wire[i].pkt) = Body(door.sent[Len(door.sent) - 3 + i])
    /\ In.info.IsIDR

\* ------------------------------------------------------------------- C12
\* The renumbering in force at write i: seqDelta as it was before the
\* datagram was handled, plus the injected packets the socket accepted
\* earlier in the handling.
OutDelta(i) ==
    prev.proxy.seqDelta
    + Cardinality({j \in 1..(i - 1) : wire[j].site = "inject" /\ wire[j].ok})

\* The sequence number write i had when it was received.
InputSeq(i) == (SeqNo(wire[i].pkt) + Pow16 - (OutDelta(i) % Pow16)) % Pow16

\* The latest datagram found the destination unset while a frame was being
\* assembled.
ResetWhileAssembling ==
    /\ aIn.disp = "nodest"
    /\ prev.proxy.fixEnabled
    /\ prev.proxy.frameBufferActive
    /\ prev.proxy.frameBuffer # <<>>

\* Nothing is sent, nothing stays buffered, the assembler is idle.
Discards ==
    /\ wire = <<>>
    /\ counters.bOutPkts = prev.counters.bOutPkts
    /\ counters.videoFramesFlushed = prev.counters.videoFramesFlushed
    /\ proxy.frameBuffer = <<>>
    /\ ~proxy.frameBufferActive
    /\ ~proxy.currentFrameTSSet

\* No write carries a packet that resetFrameBuffer discarded.
DiscardedStaysUnsent ==
    \A i \in 1..Len(wire) :
        wire[i].site # "inject" =>
            \A d \in door.discarded :
                ~(InputSeq(i) = SeqNo(d) /\ Body(wire[i].pkt) = Body(d))

\* The latest datagram is the end fragment of a slice whose start fragment
\* was discarded, and it was written to B.
TailForwarded ==
    /\ Handled
    /\ In.ok
    /\ In.info.IsFU
    /\ ~isFrameStart(In.info)
    /\ isFrameEnd(In.info)
    /\ \E k \in 1..(Len(door.sent) - 1) :
          /\ door.sent[k] \in door.discarded
          /\ parseH264Packet(door.sent[k]).info.IsFU
          /\ isFrameStart(parseH264Packet(door.sent[k]).info)
          /\ \A j \in (k + 1)..(Len(door.sent) - 1) :
                ~parseH264Packet(door.sent[j]).info.IsSlice
    /\ \E i \in 1..Len(wire) : wire[i].ok /\ Body(wire[i].pkt) = Body(aIn.pkt)

MaxLegReads == 3

MaxUpdates == 2

MaxViews == 1

\* The datagrams read and the calls of UpdateRTPDest, together.
MaxLegOps == 4

\* The datagrams read and the calls made so far.
LegOps ==
    log.nA + log.nB + log.nU + (IF thr.api.pc = "idle" THEN 0 ELSE 1)

PortZero == [ip |-> "relay", port |-> 0]

\* The relay's address seen from another port, and a host that is not the
\* relay.
RelayRTCPAddr == [ip |-> "relay", port |-> 40001]

StrangerAddr == [ip |-> "stranger", port |-> 40000]

\* A datagram of the relay, the k-th the B socket reads.
RelayDatagram(k) == buildRTPPacket(FALSE, 96, k, <<0, 8000>>, <<0, 1>>, <<k>>)

\* The doorphone and a second sender, after a short silence, after a silence
\* of exactly the learning window and after a longer one.
LegArrivals(kind) ==
    { Arrival(kind, Short),
      [Arrival(kind, peerLearningWindow) EXCEPT !.addr = ReboundAddr],
      [Arrival(kind, peerLearningWindow + Short) EXCEPT !.addr = StrangerAddr] }

LegSetups ==
    { [leg |-> "audio", videoFix |-> FALSE, inject |-> FALSE,
       env |-> Env(LegArrivals("tone"), TRUE, 10)],
      [leg |-> "video", videoFix |-> FALSE, inject |-> FALSE,
       env |-> Env(LegArrivals("idr"), TRUE, 10)],
      [leg |-> "video", videoFix |-> TRUE, inject |-> FALSE,
       env |-> Env(LegArrivals("idr"), TRUE, 10)] }

\* The leg's atomics as the goroutines load them.
LegDest == IF cfg.leg = "audio" THEN sess.audioDest ELSE videoDest

LegEnabled == IF cfg.leg = "audio" THEN sess.audioEnabled ELSE sess.videoEnabled

LegReason ==
    IF cfg.leg = "audio" THEN sess.audioDisabledReason
    ELSE sess.videoDisabledReason

LegPeer ==
    IF cfg.leg = "audio" THEN audio.p.doorphonePeer ELSE proxy.doorphonePeer

LegLearnedAt ==
    IF cfg.leg = "audio" THEN audio.p.doorphoneLearnedAt
    ELSE proxy.doorphoneLearnedAt

LegInit ==
    /\ cfg \in LegSetups
    /\ proxy = newVideoProxy(peerLearningWindow, maxFrameWait, cfg.videoFix,
                             cfg.inject)
    /\ counters = videoCounters
    /\ session = [lastActivityNsec |-> 0, state |-> "created"]
    /\ videoDest = noAddr
    /\ now = 0
    /\ wire = <<>>
    /\ aIn = [pkt |-> <<>>, addr |-> noAddr, dest |-> noAddr, disp |-> "none",
              werr |-> FALSE, gap |-> 0]
    /\ prev = [proxy |-> proxy, counters |-> counters, frame |-> NoFrame]
    /\ door = [seq |-> cfg.env.seq0, sent |-> <<>>, discarded |-> {},
              out |-> <<>>, emitted |-> <<>>]
    /\ frame = NoFrame
    /\ sess = newSession
    /\ audio = [p |-> newAudioProxy(peerLearningWindow), c |-> audioCounters]
    /\ thr = idleThreads
    /\ log = emptyLog
    /\ mgr = newManager(0)
    /\ run = startedProxy(FALSE)
    /\ pool = newPool

\* ------------------------------------------------------------ the A loop
\* audioProxy.updateDoorphonePeer: the proxy with the peer it now holds, and
\* whether the datagram is accepted.
audioUpdateDoorphonePeer(p, addr, t) ==
    IF addr = noAddr THEN [p |-> p, ok |-> FALSE]
    ELSE IF p.doorphonePeer = noAddr
    THEN [p |-> [p EXCEPT !.doorphonePeer = addr, !.doorphoneLearnedAt = t],
          ok |-> TRUE]
    ELSE IF p.doorphonePeer.ip = addr.ip /\ p.doorphonePeer.port = addr.port
    THEN [p |-> p, ok |-> TRUE]
    ELSE IF t - p.doorphoneLearnedAt <= p.peerLearningWindow
    THEN [p |-> [p EXCEPT !.doorphonePeer = addr], ok |-> TRUE]
    ELSE [p |-> p, ok |-> FALSE]

\* What the log keeps of a call of updateDoorphonePeer: the source, the time,
\* the answer, and the peer and its learning time before the call; with it
\* the time of the first datagram accepted and the datagrams refused.
Learned(addr, t, ok) ==
    [ran |-> TRUE, ok |-> ok, addr |-> addr, t |-> t,
     peer |-> LegPeer, learnedAt |-> LegLearnedAt]

\* The A loop after a read: it waits for the next datagram, or goes on to
\* load the destination.
AThread(pc, a, packet, t) ==
    [pc |-> pc, pkt |-> packet, addr |-> a.addr, t |-> t, dest |-> noAddr]

ALog(learn, packet) ==
    [log EXCEPT !.nA = @ + 1,
                !.learn = learn,
                !.first = IF @ = zeroTime /\ learn.ok THEN learn.t ELSE @,
                !.rejected = IF learn.ran /\ ~learn.ok
                             THEN @ \cup {packet} ELSE @]

\* audioProxy.loopAIn from ReadFromUDP to updateDoorphonePeer.
AudioReadA(a, packet, t, u) ==
    /\ session' = markActivity(session, t)
    /\ IF ~sess.audioEnabled
       THEN /\ audio' = [audio EXCEPT !.c.aInPkts = @ + 1,
                                      !.c.ignoredDisabled = @ + 1]
            /\ thr' = [thr EXCEPT !.a = AThread("read", a, packet, t)]
            /\ log' = ALog(noLearn, packet)
       ELSE /\ audio' = [p |-> u.p,
                         c |-> [audio.c EXCEPT
                                   !.aInPkts = @ + 1,
                                   !.drops = IF u.ok THEN @ ELSE @ + 1]]
            /\ thr' = [thr EXCEPT !.a = AThread(IF u.ok THEN "dest" ELSE "read",
                                                a, packet, t)]
            /\ log' = ALog(Learned(a.addr, t, u.ok), packet)
    /\ UNCHANGED <<proxy, counters>>

\* videoProxy.loopAIn from ReadFromUDP to updateDoorphonePeer.
VideoReadA(a, packet, t, u) ==
    /\ session' = markActivity(session, t)
    /\ proxy' = u.m.p
    /\ counters' = u.m.c
    /\ thr' = [thr EXCEPT !.a = AThread(IF u.ok THEN "dest" ELSE "read",
                                        a, packet, t)]
    /\ log' = ALog(Learned(a.addr, t, u.ok), packet)
    /\ UNCHANGED audio

ReadA ==
    /\ thr.a.pc = "read"
    /\ log.nA + log.nB < MaxLegReads
    /\ LegOps < MaxLegOps
    /\ \E a \in cfg.env.arrivals :
          /\ now' = now + a.d
          /\ door' = [door EXCEPT !.seq = (@ + 1) % Pow16,
                                  !.sent = Append(@, Datagram(a.kind, door.seq))]
          /\ IF cfg.leg = "audio"
             THEN AudioReadA(a, Datagram(a.kind, door.seq), now + a.d,
                             audioUpdateDoorphonePeer(audio.p, a.addr, now + a.d))
             ELSE VideoReadA(a, Datagram(a.kind, door.seq), now + a.d,
                             updateDoorphonePeer(
                                 counted(Machine(proxy,
                                                 [counters EXCEPT !.aInPkts = @ + 1],
                                                 FALSE),
                                         Datagram(a.kind, door.seq)),
                                 a.addr, now + a.d))
    /\ UNCHANGED <<videoDest, wire, aIn, prev, cfg, mgr, run, pool, frame, sess>>

\* The load of the destination: p.session.audioDest.Load() or
\* p.session.videoDest.Load(), and what the loop does when it is nil.
LoadDestA ==
    /\ thr.a.pc = "dest"
    /\ IF LegDest = noAddr
       THEN /\ thr' = [thr EXCEPT !.a.pc = "read"]
            /\ IF cfg.leg = "audio"
               THEN /\ audio' = [audio EXCEPT !.c.drops = @ + 1]
                    /\ UNCHANGED proxy
               ELSE /\ proxy' = IF proxy.fixEnabled
                                THEN resetFrameBuffer(
                                         Machine(proxy, counters, FALSE)).p
                                ELSE proxy
                    /\ UNCHANGED audio
       ELSE /\ thr' = [thr EXCEPT !.a.pc = "write", !.a.dest = LegDest]
            /\ UNCHANGED <<audio, proxy>>
    /\ UNCHANGED <<counters, session, videoDest, now, wire, aIn, prev, door,
                   cfg, mgr, run, pool, frame, sess, log>>

\* The writes of one handling as the log keeps them: the bytes, the address
\* written to, and whether the leg was disabled when the write was made.
Tagged(writes) ==
    [i \in 1..Len(writes) |->
        [pkt |-> writes[i].pkt, dest |-> writes[i].dest, off |-> log.off]]

\* The end of the iteration of videoProxy.loopAIn: handleVideoPacket or
\* forwardRawPacket with the destination loaded before.
VideoWriteA(r) ==
    /\ proxy' = r.m.p
    /\ counters' = r.m.c
    /\ wire' = r.m.wire
    /\ log' = [log EXCEPT !.toB = @ \o Tagged(r.m.wire)]
    /\ UNCHANGED audio

\* The end of the iteration of audioProxy.loopAIn: WriteToUDP.
AudioWriteA ==
    /\ audio' = [audio EXCEPT !.c.bOutPkts = @ + 1]
    /\ log' = [log EXCEPT !.toB = Append(@, [pkt |-> thr.a.pkt,
                                             dest |-> thr.a.dest,
                                             off |-> log.off])]
    /\ UNCHANGED <<proxy, counters, wire>>

WriteA ==
    /\ thr.a.pc = "write"
    /\ thr' = [thr EXCEPT !.a.pc = "read"]
    /\ IF cfg.leg = "audio"
       THEN AudioWriteA
       ELSE VideoWriteA(dispose([m |-> Machine(proxy, counters, FALSE),
                                 ok |-> TRUE],
                                thr.a.pkt, thr.a.dest, thr.a.t))
    /\ UNCHANGED <<session, videoDest, now, aIn, prev, door, cfg, mgr, run, pool, frame, sess>>

\* ------------------------------------------------------------ the B loop
\* What the log keeps of an iteration of loopBIn: the datagram, its source,
\* what the loop loaded, and whether it wrote the datagram to the A socket.
BIteration(packet, addr) ==
    [pkt |-> packet, src |-> addr, enabled |-> TRUE, loaded |-> FALSE,
     dest |-> noAddr, peer |-> noAddr, sent |-> FALSE, done |-> FALSE]

\* loopBIn from ReadFromUDP to the load of the destination; the audio loop
\* stops at a disabled leg.
ReadB ==
    /\ thr.b.pc = "read"
    /\ log.nA + log.nB < MaxLegReads
    /\ LegOps < MaxLegOps
    /\ session' = markActivity(session, now)
    /\ \E addr \in {RelayAddr, RelayRTCPAddr, StrangerAddr} :
          IF cfg.leg = "audio" /\ ~sess.audioEnabled
          THEN /\ audio' = [audio EXCEPT !.c.ignoredDisabled = @ + 1]
               /\ thr' = [thr EXCEPT !.b = [pc |-> "read",
                                            pkt |-> RelayDatagram(log.nB),
                                            addr |-> addr, dest |-> noAddr,
                                            peer |-> noAddr]]
               /\ log' = [log EXCEPT
                             !.nB = @ + 1,
                             !.bIn = Append(@, [BIteration(RelayDatagram(log.nB),
                                                           addr)
                                                EXCEPT !.enabled = FALSE,
                                                       !.done = TRUE])]
          ELSE /\ thr' = [thr EXCEPT !.b = [pc |-> "dest",
                                            pkt |-> RelayDatagram(log.nB),
                                            addr |-> addr, dest |-> noAddr,
                                            peer |-> noAddr]]
               /\ log' = [log EXCEPT
                             !.nB = @ + 1,
                             !.bIn = Append(@, BIteration(RelayDatagram(log.nB),
                                                          addr))]
               /\ UNCHANGED audio
    /\ UNCHANGED <<proxy, counters, videoDest, now, wire, aIn, prev, door,
                   cfg, mgr, run, pool, frame, sess>>

\* The source check without the comparison of the IP addresses.
fromAnywhere(dest, addr) == dest # noAddr

\* dest == nil || !dest.IP.Equal(addr.IP)
fromDest(dest, addr) == dest # noAddr /\ dest.ip = addr.ip

\* The counters of the leg after loopBIn loaded the destination and the peer.
audioLoadedB(c, dest, addr, peer) ==
    IF ~fromDest(dest, addr) THEN [c EXCEPT !.drops = @ + 1]
    ELSE IF peer = noAddr THEN [c EXCEPT !.bInPkts = @ + 1, !.drops = @ + 1]
    ELSE [c EXCEPT !.bInPkts = @ + 1]

videoLoadedB(c, dest, addr) ==
    IF ~fromDest(dest, addr) THEN c ELSE [c EXCEPT !.bInPkts = @ + 1]

\* loopBIn from the load of the destination to getDoorphonePeer.
LoadB ==
    /\ thr.b.pc = "dest"
    /\ thr' = [thr EXCEPT !.b.pc = IF fromDest(LegDest, thr.b.addr)
                                      /\ LegPeer # noAddr
                                   THEN "write" ELSE "read",
                          !.b.dest = LegDest,
                          !.b.peer = IF fromDest(LegDest, thr.b.addr)
                                     THEN LegPeer ELSE noAddr]
    /\ log' = [log EXCEPT !.bIn[Len(log.bIn)] =
                  [@ EXCEPT !.loaded = TRUE,
                            !.dest = LegDest,
                            !.peer = IF fromDest(LegDest, thr.b.addr)
                                     THEN LegPeer ELSE noAddr,
                            !.done = ~(fromDest(LegDest, thr.b.addr)
                                       /\ LegPeer # noAddr)]]
    /\ IF cfg.leg = "audio"
       THEN /\ audio' = [audio EXCEPT
                            !.c = audioLoadedB(@, LegDest, thr.b.addr, LegPeer)]
            /\ UNCHANGED counters
       ELSE /\ counters' = videoLoadedB(counters, LegDest, thr.b.addr)
            /\ UNCHANGED audio
    /\ UNCHANGED <<proxy, session, videoDest, now, wire, aIn, prev, door, cfg, mgr, run, pool,
                   frame, sess>>

\* p.aConn.WriteToUDP(buffer[:n], peer) and the count of it.
WriteB ==
    /\ thr.b.pc = "write"
    /\ thr' = [thr EXCEPT !.b.pc = "read"]
    /\ log' = [log EXCEPT !.toA = Append(@, [pkt |-> thr.b.pkt,
                                             dest |-> thr.b.peer,
                                             off |-> log.off]),
                          !.bIn[Len(log.bIn)] =
                              [@ EXCEPT !.sent = TRUE, !.done = TRUE]]
    /\ IF cfg.leg = "audio"
       THEN /\ audio' = [audio EXCEPT !.c.aOutPkts = @ + 1]
            /\ UNCHANGED counters
       ELSE /\ counters' = [counters EXCEPT !.aOutPkts = @ + 1]
            /\ UNCHANGED audio
    /\ UNCHANGED <<proxy, session, videoDest, now, wire, aIn, prev, door, cfg, mgr, run, pool,
                   frame, sess>>

\* ------------------------------------------------------ UpdateRTPDest
\* An applyRTPDest that disables a leg without recording the reason.
applyMediaNoReason(media, dest) ==
    IF dest.port = 0
    THEN [media EXCEPT !.RTPEngineDest = noAddr, !.Enabled = FALSE]
    ELSE [media EXCEPT !.RTPEngineDest = dest, !.Enabled = TRUE,
                       !.DisabledReason = ""]

\* The Media struct applyRTPDest leaves for a destination.
applyMedia(media, dest) ==
    IF dest.port = 0
    THEN [media EXCEPT !.RTPEngineDest = noAddr, !.Enabled = FALSE,
                       !.DisabledReason = "rtpengine_port_0"]
    ELSE [media EXCEPT !.RTPEngineDest = dest, !.Enabled = TRUE,
                       !.DisabledReason = ""]

\* The destinations a call provides: for a leg under traffic that leg's only,
\* otherwise either or both (nil is noAddr).
UpdateArgs ==
    IF cfg.leg = "audio"
    THEN {[audio |-> d, video |-> noAddr] : d \in {RelayAddr, PortZero}}
    ELSE IF cfg.leg = "video"
    THEN {[audio |-> noAddr, video |-> d] : d \in {RelayAddr, PortZero}}
    ELSE {[audio |-> a, video |-> v] :
             a \in {noAddr, RelayAddr, PortZero},
             v \in {noAddr, RelayRTCPAddr, PortZero}}
         \ {[audio |-> noAddr, video |-> noAddr]}

\* The destination the call in progress provides for the leg under traffic.
LegArg ==
    IF cfg.leg = "audio" THEN thr.api.audio
    ELSE IF cfg.leg = "video" THEN thr.api.video
    ELSE noAddr

\* Whether the leg under traffic is disabled once the call has stored a
\* destination: a port of 0 disables it, nil leaves it as it was.
OffAfter(arg) == IF arg = noAddr THEN log.off ELSE arg.port = 0

\* UpdateRTPDest takes the manager's lock and finds the session.
CallUpdateRTPDest ==
    /\ thr.api.pc = "idle"
    /\ log.nU < MaxUpdates
    /\ LegOps < MaxLegOps
    /\ \E args \in UpdateArgs :
          thr' = [thr EXCEPT !.api = [pc |-> IF args.audio # noAddr
                                             THEN "audio" ELSE "video",
                                      audio |-> args.audio,
                                      video |-> args.video,
                                      before |-> [sess |-> sess,
                                                  videoDest |-> videoDest]]]
    /\ UNCHANGED <<videoVars, mgr, run, pool, sess, audio, log>>

\* applyRTPDest, audio half: the fields of session.Audio and
\* audioEnabled.Store.
StoreAudioEnabled ==
    /\ thr.api.pc = "audio"
    /\ thr' = [thr EXCEPT !.api.pc = "audioReason"]
    /\ sess' = [sess EXCEPT !.Audio = applyMedia(sess.Audio, thr.api.audio),
                            !.audioEnabled = applyMedia(sess.Audio, thr.api.audio).Enabled]
    /\ log' = [log EXCEPT !.off = IF cfg.leg = "audio"
                                  THEN @ /\ thr.api.audio.port = 0 ELSE @]
    /\ UNCHANGED <<videoVars, mgr, run, pool, audio>>

StoreAudioReason ==
    /\ thr.api.pc = "audioReason"
    /\ thr' = [thr EXCEPT !.api.pc = "audioDest"]
    /\ sess' = [sess EXCEPT !.audioDisabledReason =
                                applyMedia(sess.Audio, thr.api.audio).DisabledReason]
    /\ UNCHANGED <<videoVars, mgr, run, pool, audio, log>>

\* audioDest.Store, after which the call goes on to the video half or
\* returns.
StoreAudioDest ==
    /\ thr.api.pc = "audioDest"
    /\ thr' = [thr EXCEPT !.api.pc = IF thr.api.video # noAddr
                                     THEN "video" ELSE "idle"]
    /\ sess' = [sess EXCEPT !.audioDest =
                                applyMedia(sess.Audio, thr.api.audio).RTPEngineDest]
    /\ log' = IF thr.api.video # noAddr THEN log
              ELSE [log EXCEPT !.off = OffAfter(LegArg), !.nU = @ + 1]
    /\ UNCHANGED <<videoVars, mgr, run, pool, audio>>

\* applyRTPDest, video half: the fields of session.Video and
\* videoEnabled.Store.
StoreVideoEnabled ==
    /\ thr.api.pc = "video"
    /\ thr' = [thr EXCEPT !.api.pc = "videoReason"]
    /\ sess' = [sess EXCEPT !.Video = applyMedia(sess.Video, thr.api.video),
                            !.videoEnabled = applyMedia(sess.Video, thr.api.video).Enabled]
    /\ log' = [log EXCEPT !.off = IF cfg.leg = "video"
                                  THEN @ /\ thr.api.video.port = 0 ELSE @]
    /\ UNCHANGED <<videoVars, mgr, run, pool, audio>>

StoreVideoReason ==
    /\ thr.api.pc = "videoReason"
    /\ thr' = [thr EXCEPT !.api.pc = "videoDest"]
    /\ sess' = [sess EXCEPT !.videoDisabledReason =
                                applyMedia(sess.Video, thr.api.video).DisabledReason]
    /\ UNCHANGED <<videoVars, mgr, run, pool, audio, log>>

\* A videoDest.Store that clears the audio destination as well.
StoreVideoDestAndAudio ==
    /\ thr.api.pc = "videoDest"
    /\ thr' = [thr EXCEPT !.api.pc = "idle"]
    /\ videoDest' = applyRTPDest(thr.api.video)
    /\ sess' = [sess EXCEPT !.audioDest = noAddr]
    /\ log' = [log EXCEPT !.off = OffAfter(LegArg), !.nU = @ + 1]
    /\ UNCHANGED <<proxy, counters, session, now, wire, aIn, prev, door, cfg, mgr, run, pool,
                   frame, audio>>

\* videoDest.Store and the return of UpdateRTPDest.
StoreVideoDest ==
    /\ thr.api.pc = "videoDest"
    /\ thr' = [thr EXCEPT !.api.pc = "idle"]
    /\ videoDest' = applyRTPDest(thr.api.video)
    /\ log' = [log EXCEPT !.off = OffAfter(LegArg), !.nU = @ + 1]
    /\ UNCHANGED <<proxy, counters, session, now, wire, aIn, prev, door, cfg, mgr, run, pool,
                   frame, sess, audio>>

LegNext ==
    \/ ReadA \/ LoadDestA \/ WriteA
    \/ ReadB \/ LoadB \/ WriteB
    \/ CallUpdateRTPDest
    \/ StoreAudioEnabled \/ StoreAudioReason \/ StoreAudioDest
    \/ StoreVideoEnabled \/ StoreVideoReason \/ StoreVideoDest

LegSpec == LegInit /\ [][LegNext]_vars

\* ------------------------------------------------------------------- C13
\* The latest call of updateDoorphonePeer found a peer learned and a datagram
\* from another address.
FromOtherSource ==
    /\ log.learn.ran
    /\ log.learn.peer # noAddr
    /\ log.learn.addr # log.learn.peer

\* A write on the B socket carries the datagram.
Forwarded(packet) ==
    \E i \in 1..Len(log.toB) :
        /\ SeqNo(log.toB[i].pkt) = SeqNo(packet)
        /\ Body(log.toB[i].pkt) = Body(packet)

\* C13: the learning time is the time the first datagram was accepted, and a
\* datagram from another address than the learned peer replaces the peer
\* exactly when it is read no later than the learning window after that
\* time; later it is refused, the peer stays, and no refused datagram is
\* ever forwarded.
C13_ReplacementOnlyInWindow ==
    /\ LegPeer # noAddr => LegLearnedAt = log.first
    /\ FromOtherSource =>
          /\ log.learn.learnedAt = log.first
          /\ IF log.learn.t - log.first <= peerLearningWindow
             THEN log.learn.ok /\ LegPeer = log.learn.addr
             ELSE /\ ~log.learn.ok
                  /\ LegPeer = log.learn.peer
                  /\ thr.a.pkt \in log.rejected
    /\ \A packet \in log.rejected : ~Forwarded(packet)

\* The peer was replaced at the last moment of the window, the datagram that
\* replaced it was forwarded, and a later datagram from a third address is
\* refused.
C13_Witness ==
    /\ FromOtherSource
    /\ ~log.learn.ok
    /\ log.learn.addr = StrangerAddr
    /\ LegPeer = ReboundAddr
    /\ LegLearnedAt + peerLearningWindow < log.learn.t
    /\ \E i \in 1..Len(door.sent) :
          Forwarded(door.sent[i]) /\ door.sent[i] \notin log.rejected
    /\ log.toB # <<>>

\* ------------------------------------------------------------------- C14
\* What loopBIn found for an iteration: a destination set, the datagram's
\* source IP equal to the destination's, and a learned peer (and, for audio,
\* the leg enabled).
Relayable(it) ==
    /\ it.enabled
    /\ it.loaded
    /\ it.dest # noAddr
    /\ it.dest.ip = it.src.ip
    /\ it.peer # noAddr

C15_NoForwardWhileOff ==
    /\ \A i \in 1..Len(log.toB) : ~log.toB[i].off
    /\ \A i \in 1..Len(log.toA) : ~log.toA[i].off

\* ------------------------------------------------- the session's state
\* A session without traffic: UpdateRTPDest on either or both legs, and a
\* reader that takes AudioState or VideoState while updates run.
DestSetup ==
    [leg |-> "both", videoFix |-> FALSE, inject |-> FALSE,
     env |-> Env({}, TRUE, 10)]

DestInit ==
    /\ cfg = DestSetup
    /\ proxy = newVideoProxy(peerLearningWindow, maxFrameWait, cfg.videoFix,
                             cfg.inject)
    /\ counters = videoCounters
    /\ session = [lastActivityNsec |-> 0, state |-> "created"]
    /\ videoDest = noAddr
    /\ now = 0
    /\ wire = <<>>
    /\ aIn = [pkt |-> <<>>, addr |-> noAddr, dest |-> noAddr, disp |-> "none",
              werr |-> FALSE, gap |-> 0]
    /\ prev = [proxy |-> proxy, counters |-> counters, frame |-> NoFrame]
    /\ door = [seq |-> cfg.env.seq0, sent |-> <<>>, discarded |-> {},
              out |-> <<>>, emitted |-> <<>>]
    /\ frame = NoFrame
    /\ sess = newSession
    /\ audio = [p |-> newAudioProxy(peerLearningWindow), c |-> audioCounters]
    /\ thr = idleThreads
    /\ log = emptyLog
    /\ mgr = newManager(0)
    /\ run = startedProxy(FALSE)
    /\ pool = newPool

\* AudioState / VideoState: the call and audioDest.Load() / videoDest.Load().
StateLoadDest ==
    /\ thr.view.pc = "idle"
    /\ log.nV < MaxViews
    /\ \E leg \in {"audio", "video"} :
          thr' = [thr EXCEPT !.view = [pc |-> "enabled", leg |-> leg,
                                       dest |-> IF leg = "audio"
                                                THEN sess.audioDest
                                                ELSE videoDest,
                                       enabled |-> TRUE, reason |-> ""]]
    /\ UNCHANGED <<videoVars, mgr, run, pool, sess, audio, log>>

\* audioEnabled.Load() / videoEnabled.Load()
StateLoadEnabled ==
    /\ thr.view.pc = "enabled"
    /\ thr' = [thr EXCEPT !.view.pc = "reason",
                          !.view.enabled = IF thr.view.leg = "audio"
                                           THEN sess.audioEnabled
                                           ELSE sess.videoEnabled]
    /\ UNCHANGED <<videoVars, mgr, run, pool, sess, audio, log>>

\* loadAtomicString(&s.audioDisabledReason) / video, and the return of the
\* Media value.
StateLoadReason ==
    /\ thr.view.pc = "reason"
    /\ thr' = [thr EXCEPT !.view.pc = "idle",
                          !.view.reason = IF thr.view.leg = "audio"
                                          THEN sess.audioDisabledReason
                                          ELSE sess.videoDisabledReason]
    /\ log' = [log EXCEPT !.nV = @ + 1]
    /\ UNCHANGED <<videoVars, mgr, run, pool, sess, audio>>

DestNext ==
    \/ CallUpdateRTPDest
    \/ StoreAudioEnabled \/ StoreAudioReason \/ StoreAudioDest
    \/ StoreVideoEnabled \/ StoreVideoReason \/ StoreVideoDest
    \/ StateLoadDest \/ StateLoadEnabled \/ StateLoadReason

DestSpec == DestInit /\ [][DestNext]_vars

\* ------------------------------------------------------------------- C16
\* What the session holds for a leg: the fields of its Media and its
\* atomics.
LegState(s, vd, leg) ==
    IF leg = "audio"
    THEN [media |-> s.Audio, dest |-> s.audioDest,
          enabled |-> s.audioEnabled, reason |-> s.audioDisabledReason]
    ELSE [media |-> s.Video, dest |-> vd,
          enabled |-> s.videoEnabled, reason |-> s.videoDisabledReason]

\* The destination the latest call provided for the leg.
ArgOf(leg) == IF leg = "audio" THEN thr.api.audio ELSE thr.api.video

\* UpdateRTPDest has returned.
Returned == thr.api.pc = "idle" /\ log.nU > 0

\* The leg holds no destination and is disabled for a port of 0.
DisabledByPortZero(st) ==
    /\ st.dest = noAddr
    /\ ~st.enabled
    /\ st.reason = "rtpengine_port_0"
    /\ st.media.RTPEngineDest = noAddr
    /\ ~st.media.Enabled
    /\ st.media.DisabledReason = "rtpengine_port_0"

\* The leg holds the destination and is enabled.
EnabledWith(st, dest) ==
    /\ st.dest = dest
    /\ st.enabled
    /\ st.reason = ""
    /\ st.media.RTPEngineDest = dest
    /\ st.media.Enabled
    /\ st.media.DisabledReason = ""

\* C16: when UpdateRTPDest has returned, a leg it was given a destination
\* with port 0 for holds no destination, enabled = false and the reason
\* "rtpengine_port_0"; a leg it was given a destination with another port
\* for, also one disabled before, holds that destination, enabled = true
\* and an empty reason.
C16_PortZeroDisablesNonZeroEnables ==
    Returned =>
        \A leg \in {"audio", "video"} :
            ArgOf(leg) # noAddr =>
                IF ArgOf(leg).port = 0
                THEN DisabledByPortZero(LegState(sess, videoDest, leg))
                ELSE EnabledWith(LegState(sess, videoDest, leg), ArgOf(leg))

\* A call has re-enabled the audio leg that a port of 0 had disabled, and
\* disabled the video leg with a port of 0.
C16_Witness ==
    /\ Returned
    /\ thr.api.audio = RelayAddr
    /\ DisabledByPortZero(LegState(thr.api.before.sess,
                                   thr.api.before.videoDest, "audio"))
    /\ EnabledWith(LegState(sess, videoDest, "audio"), RelayAddr)
    /\ thr.api.video = PortZero
    /\ DisabledByPortZero(LegState(sess, videoDest, "video"))

\* ------------------------------------------------------------------- C17
\* C17: a Media value returned by AudioState or VideoState with
\* enabled = false holds no destination.
C17_DisabledHasNoDest ==
    (thr.view.pc = "idle" /\ log.nV > 0) =>
        (~thr.view.enabled => thr.view.dest = noAddr)

\* ------------------------------------------------------------------- C18
\* An UpdateRTPDest is in progress or has returned.
Called == thr.api.pc # "idle" \/ Returned

\* The session as it was when the latest UpdateRTPDest was called.
Before(leg) == LegState(thr.api.before.sess, thr.api.before.videoDest, leg)

\* C18: during and after an UpdateRTPDest that provides no destination for
\* a leg, that leg's destination, enabled flag and reason are what they
\* were when it was called, and so are the session's id and the ports of
\* both legs.
C18_OtherLegUntouched ==
    Called =>
        /\ sess.ID = thr.api.before.sess.ID
        /\ \A leg \in {"audio", "video"} :
              /\ LegState(sess, videoDest, leg).media.APort
                    = Before(leg).media.APort
              /\ LegState(sess, videoDest, leg).media.BPort
                    = Before(leg).media.BPort
              /\ ArgOf(leg) = noAddr =>
                    LegState(sess, videoDest, leg) = Before(leg)

\* A call with a video destination only has disabled the video leg, and the
\* audio leg still holds the destination an earlier call gave it.
C18_Witness ==
    /\ Returned
    /\ thr.api.audio = noAddr
    /\ thr.api.video = PortZero
    /\ EnabledWith(Before("video"), RelayRTCPAddr)
    /\ DisabledByPortZero(LegState(sess, videoDest, "video"))
    /\ EnabledWith(LegState(sess, videoDest, "audio"), RelayAddr)

\* ------------------------------------------------ the manager's sessions
\* A manager with an injected clock and without the reaper, as the
\* repository's tests build it: Create, Delete and Cleanup are called while
\* the sessions receive datagrams and the clock advances.
MgrSetup ==
    [leg |-> "none", videoFix |-> FALSE, inject |-> FALSE,
     env |-> Env({}, TRUE, 10)]

\* The idle timeouts a manager is built with.
IdleTimeouts == {0 - Second, 0, Second}

MgrInit ==
    /\ cfg = MgrSetup
    /\ proxy = newVideoProxy(peerLearningWindow, maxFrameWait, cfg.videoFix,
                             cfg.inject)
    /\ counters = videoCounters
    /\ session = [lastActivityNsec |-> 0, state |-> "created"]
    /\ videoDest = noAddr
    /\ now = Second
    /\ wire = <<>>
    /\ aIn = [pkt |-> <<>>, addr |-> noAddr, dest |-> noAddr, disp |-> "none",
              werr |-> FALSE, gap |-> 0]
    /\ prev = [proxy |-> proxy, counters |-> counters, frame |-> NoFrame]
    /\ door = [seq |-> cfg.env.seq0, sent |-> <<>>, discarded |-> {},
              out |-> <<>>, emitted |-> <<>>]
    /\ frame = NoFrame
    /\ sess = newSession
    /\ audio = [p |-> newAudioProxy(peerLearningWindow), c |-> audioCounters]
    /\ thr = idleThreads
    /\ log = emptyLog
    /\ \E idleTimeout \in IdleTimeouts : mgr = newManager(idleTimeout)
    /\ run = startedProxy(FALSE)
    /\ pool = newPool

\* What leaves the manager's state as it is.
MgrFrame == UNCHANGED <<proxy, counters, session, videoDest, wire, aIn, prev,
                        door, cfg, frame, sess, audio, thr, log, run, pool>>

\* Manager.Get
Get(m, id) == id \in m.sessions

\* The sockets createWithDest has bound when its failAt-th listenUDP fails:
\* the ports of the earlier binds, in the order audio A, audio B, video A,
\* video B.
bound(ports, failAt) == {ports[i] : i \in 1..(failAt - 1)}

closedOnErrorButVideoA(ports, failAt) ==
    CASE failAt = 1 -> {}
      [] failAt = 2 -> {ports[1]}
      [] failAt = 3 -> {ports[1], ports[2]}
      [] failAt = 4 -> {ports[1], ports[2]}

\* The sockets each error branch of createWithDest closes before it
\* releases the ports: none after the first bind, aConn after the second,
\* aConn and bConn after the third, these and videoAConn after the fourth.
closedOnError(ports, failAt) ==
    CASE failAt = 1 -> {}
      [] failAt = 2 -> {ports[1]}
      [] failAt = 3 -> {ports[1], ports[2]}
      [] failAt = 4 -> {ports[1], ports[2], ports[3]}

\* createWithDest: Allocate(4), the four listenUDP of which failAt fails
\* (0: none), and the insertion into the table with the start of the
\* proxies.  unowned collects the sockets a failed call leaves bound.
createWithDest(m, failAt, t) ==
    IF Allocate(m.allocator, 4).err # ""
    THEN [m EXCEPT !.calls = @ + 1,
                   !.call.create = [n |-> @.n + 1, id |-> 0,
                                    err |-> Allocate(m.allocator, 4).err]]
    ELSE IF failAt > 0
    THEN [m EXCEPT !.calls = @ + 1,
                   !.allocator = Release(Allocate(m.allocator, 4).p,
                                         Allocate(m.allocator, 4).ports),
                   !.unowned =
                       @ \cup (bound(Allocate(m.allocator, 4).ports, failAt)
                               \ closedOnError(Allocate(m.allocator, 4).ports,
                                               failAt)),
                   !.call.create = [n |-> @.n + 1, id |-> 0,
                                    err |-> "socket"]]
    ELSE [m EXCEPT !.calls = @ + 1,
                   !.allocator = Allocate(m.allocator, 4).p,
                   !.ids = @ + 1,
                   !.sessions = @ \cup {m.ids + 1},
                   !.objs[m.ids + 1] =
                       StartedSession(m.ids + 1,
                                      Allocate(m.allocator, 4).ports, t),
                   !.call.create = [n |-> @.n + 1, id |-> m.ids + 1,
                                    err |-> ""]]

Create ==
    /\ mgr.calls < MaxCalls
    /\ \E failAt \in 0..4 : mgr' = createWithDest(mgr, failAt, now)
    /\ UNCHANGED now
    /\ MgrFrame

\* The injected clock advances.
Tick ==
    /\ mgr.ticks < MaxTicks
    /\ now' = now + Second
    /\ mgr' = [mgr EXCEPT !.ticks = @ + 1]
    /\ MgrFrame

\* A loop of a running proxy reads a datagram: markActivity.
Activity ==
    /\ \E id \in SessionIDs :
          /\ \/ mgr.objs[id].audioProxy = "running"
             \/ mgr.objs[id].videoProxy = "running"
          /\ mgr' = [mgr EXCEPT !.objs[id] = markActivity(@, now)]
    /\ UNCHANGED now
    /\ MgrFrame

\* Manager.Delete under the lock: the session found is set to closing and
\* removed from the table; an id not found returns false.
Delete ==
    /\ mgr.call.delete.pc = "idle"
    /\ mgr.calls < MaxCalls
    /\ \E id \in SessionIDs :
          mgr' = IF id \in mgr.sessions
                 THEN [mgr EXCEPT !.calls = @ + 1,
                                  !.objs[id].state = "closing",
                                  !.sessions = @ \ {id},
                                  !.call.delete =
                                      [pc |-> "audio", n |-> @.n, id |-> id,
                                       ok |-> FALSE]]
                 ELSE [mgr EXCEPT !.calls = @ + 1,
                                  !.call.delete =
                                      [pc |-> "idle", n |-> @.n + 1,
                                       id |-> id, ok |-> FALSE]]
    /\ UNCHANGED now
    /\ MgrFrame

\* removeIdleSessions: the sessions in the table it finds idle at now.
expiredLoose(m, t) ==
    {id \in m.sessions :
        t - (IF lastActivity(m.objs[id]) = zeroTime THEN t
             ELSE lastActivity(m.objs[id])) > m.idleTimeout}

expired(m, t) ==
    {id \in m.sessions :
        t - (IF lastActivity(m.objs[id]) = zeroTime THEN t
             ELSE lastActivity(m.objs[id])) >= m.idleTimeout}

\* A removeIdleSessions that leaves the idle sessions in the table.
removeIdleSessionsKeeping(m, idle) ==
    [m EXCEPT !.objs = [i \in SessionIDs |->
                           IF i \in idle THEN [@[i] EXCEPT !.state = "closing"]
                           ELSE @[i]]]

\* removeIdleSessions under the lock.
removeIdleSessions(m, idle) ==
    [m EXCEPT !.objs = [i \in SessionIDs |->
                           IF i \in idle THEN [@[i] EXCEPT !.state = "closing"]
                           ELSE @[i]],
              !.sessions = @ \ idle]

\* Manager.Cleanup(now): nothing with an idle timeout of 0 or less;
\* otherwise the idle sessions leave the table under the lock, and the
\* first of them is stopped next.
Cleanup ==
    /\ mgr.call.cleanup.pc = "idle"
    /\ mgr.calls < MaxCalls
    /\ IF mgr.idleTimeout <= 0 \/ expired(mgr, now) = {}
       THEN mgr' = [mgr EXCEPT !.calls = @ + 1,
                                !.call.cleanup =
                                   [pc |-> "idle", n |-> @.n + 1,
                                    expired |-> {}, id |-> 0]]
       ELSE \E id \in expired(mgr, now) :
               mgr' = [removeIdleSessions(mgr, expired(mgr, now))
                          EXCEPT !.calls = @ + 1,
                                 !.call.cleanup =
                                   [pc |-> "audio", n |-> @.n,
                                    expired |-> expired(mgr, now) \ {id},
                                    id |-> id]]
    /\ UNCHANGED now
    /\ MgrFrame

\* sessionProxy.stop that returns with the sockets left open.
stopLeavingSockets(s, which) ==
    IF which = "audio"
    THEN [s EXCEPT !.audioProxy = "stopped", !.stops.audio = @ + 1]
    ELSE [s EXCEPT !.videoProxy = "stopped", !.stops.video = @ + 1]

\* sessionProxy.stop that closes the A-side socket only.
stopClosingASocket(s, which) ==
    IF which = "audio"
    THEN [s EXCEPT !.audioProxy = "stopped",
                   !.stops.audio = @ + 1,
                   !.open = @ \ {s.ports[1]}]
    ELSE [s EXCEPT !.videoProxy = "stopped",
                   !.stops.video = @ + 1,
                   !.open = @ \ {s.ports[3]}]

\* sessionProxy.stop: the workers have exited and the proxy's two sockets
\* are closed.
stop(s, which) ==
    IF which = "audio"
    THEN [s EXCEPT !.audioProxy = "stopped",
                   !.stops.audio = @ + 1,
                   !.open = @ \ {s.ports[1], s.ports[2]}]
    ELSE [s EXCEPT !.videoProxy = "stopped",
                   !.stops.video = @ + 1,
                   !.open = @ \ {s.ports[3], s.ports[4]}]

\* The callers of stopSession: Delete, Cleanup and the reaper.
Stoppers == {"delete", "cleanup", "reaper"}

\* stopSession in Delete, Cleanup or the reaper: session.audioProxy.stop()
StopAudioProxy ==
    /\ \E c \in Stoppers :
          /\ mgr.call[c].pc = "audio"
          /\ mgr' = [mgr EXCEPT !.objs[mgr.call[c].id] = stop(@, "audio"),
                                !.call[c].pc = "video"]
    /\ UNCHANGED now
    /\ MgrFrame

\* session.videoProxy.stop()
StopVideoProxy ==
    /\ \E c \in Stoppers :
          /\ mgr.call[c].pc = "video"
          /\ mgr' = [mgr EXCEPT !.objs[mgr.call[c].id] = stop(@, "video"),
                                !.call[c].pc = "release"]
    /\ UNCHANGED now
    /\ MgrFrame

\* m.allocator.Release of the session's four ports, after which Delete
\* returns true.
ReleaseDeleted ==
    /\ mgr.call.delete.pc = "release"
    /\ mgr' = [mgr EXCEPT
                  !.allocator = Release(@, mgr.objs[mgr.call.delete.id].ports),
                  !.objs[mgr.call.delete.id].released = @ + 1,
                  !.call.delete.pc = "idle",
                  !.call.delete.n = @ + 1,
                  !.call.delete.ok = TRUE]
    /\ UNCHANGED now
    /\ MgrFrame

\* m.allocator.Release for an expired session, after which Cleanup or the
\* reaper stops the next expired session or returns.
ReleaseExpired ==
    /\ \E c \in {"cleanup", "reaper"} :
          /\ mgr.call[c].pc = "release"
          /\ IF mgr.call[c].expired = {}
             THEN mgr' = [mgr EXCEPT
                             !.allocator =
                                 Release(@, mgr.objs[mgr.call[c].id].ports),
                             !.objs[mgr.call[c].id].released = @ + 1,
                             !.call[c].pc = "idle",
                             !.call[c].n = @ + 1]
             ELSE \E id \in mgr.call[c].expired :
                     mgr' = [mgr EXCEPT
                                !.allocator =
                                    Release(@, mgr.objs[mgr.call[c].id].ports),
                                !.objs[mgr.call[c].id].released = @ + 1,
                                !.call[c].pc = "audio",
                                !.call[c].id = id,
                                !.call[c].expired = @ \ {id}]
    /\ UNCHANGED now
    /\ MgrFrame

MgrNext ==
    \/ Create \/ Tick \/ Activity
    \/ Delete \/ Cleanup
    \/ StopAudioProxy \/ StopVideoProxy
    \/ ReleaseDeleted \/ ReleaseExpired

MgrSpec == MgrInit /\ [][MgrNext]_vars

\* ------------------------------------------------------------------- C19
\* Delete is called: the caller of Delete leaves its rest.
DeleteCalled ==
    mgr.call.delete.pc = "idle" /\ mgr'.call.delete # mgr.call.delete

\* Delete returns from stopSession.
DeleteStopped ==
    mgr.call.delete.pc # "idle" /\ mgr'.call.delete.pc = "idle"

\* The session is closing and out of the table, its proxies are stopped, its
\* sockets closed and its four ports available.
Gone(m, s) ==
    /\ s.ID \notin m.sessions
    /\ s.state = "closing"
    /\ s.audioProxy = "stopped"
    /\ s.videoProxy = "stopped"
    /\ s.open = {}
    /\ Len(s.ports) = 4
    /\ Range(s.ports) \subseteq Range(m.allocator.available)
    /\ Range(s.ports) \cap m.allocator.inUse = {}

\* C19: Delete of an id in the table takes the session out of the table,
\* sets it to closing and returns true, and when it returns the session's
\* proxies are stopped, its sockets closed and its four ports available;
\* Delete of an id not in the table returns false at once and leaves the
\* table, the sessions and the allocator as they are.  A session that is
\* closing is never in the table again.
C19_DeleteRemovesAndReleases ==
    [][/\ DeleteCalled =>
            IF mgr'.call.delete.id \in mgr.sessions
            THEN /\ mgr'.call.delete.pc # "idle"
                 /\ mgr'.call.delete.id \notin mgr'.sessions
                 /\ mgr'.objs[mgr'.call.delete.id].state = "closing"
            ELSE /\ mgr'.call.delete.pc = "idle"
                 /\ ~mgr'.call.delete.ok
                 /\ mgr'.sessions = mgr.sessions
                 /\ mgr'.objs = mgr.objs
                 /\ mgr'.allocator = mgr.allocator
       /\ DeleteStopped =>
            /\ mgr'.call.delete.ok
            /\ Gone(mgr', mgr'.objs[mgr.call.delete.id])
       /\ \A id \in SessionIDs :
            mgr.objs[id].state = "closing" => id \notin mgr'.sessions
      ]_vars

\* With no idle timeout, a second Delete of a session has returned false:
\* the first removed it, which is closing with its proxies stopped and its
\* ports available.
C19_Witness ==
    /\ mgr.idleTimeout = 0
    /\ mgr.call.delete.pc = "idle"
    /\ mgr.call.delete.n = 2
    /\ ~mgr.call.delete.ok
    /\ mgr.call.delete.id = 1
    /\ Gone(mgr, mgr.objs[1])
    /\ mgr.sessions = {2}

\* ------------------------------------------------------------------- C20
\* Cleanup is called: the caller of Cleanup leaves its rest.
CleanupCalled ==
    mgr.call.cleanup.pc = "idle" /\ mgr'.call.cleanup # mgr.call.cleanup

\* The sessions of the table whose last activity is the idle timeout or
\* more before t.
IdleAt(m, t) ==
    {id \in m.sessions : t - m.objs[id].lastActivityNsec >= m.idleTimeout}

\* C20: with an idle timeout above 0, Cleanup(now) takes out of the table
\* the sessions with now - last_activity >= idle_timeout, all of them and
\* no other, and leaves the sessions that stay as they are; with an idle
\* timeout of 0 or less the table stays as it is.
C20_CleanupRemovesExactlyIdle ==
    [][CleanupCalled =>
          /\ mgr'.sessions = IF mgr.idleTimeout > 0
                             THEN mgr.sessions \ IdleAt(mgr, now)
                             ELSE mgr.sessions
          /\ \A id \in mgr'.sessions : mgr'.objs[id] = mgr.objs[id]
          /\ \A id \in mgr.sessions \ mgr'.sessions :
                /\ mgr'.objs[id].state = "closing"
                /\ id \in {mgr'.call.cleanup.id} \cup mgr'.call.cleanup.expired
          /\ mgr'.allocator = mgr.allocator
      ]_vars

\* Cleanup has removed, stopped and released the session idle for exactly
\* the idle timeout and has left the one active since.
C20_Witness ==
    /\ mgr.idleTimeout = Second
    /\ mgr.call.cleanup.pc = "idle"
    /\ mgr.call.cleanup.n = 1
    /\ mgr.call.delete.n = 0
    /\ mgr.sessions = {2}
    /\ now - mgr.objs[1].lastActivityNsec = mgr.idleTimeout
    /\ now - mgr.objs[2].lastActivityNsec < mgr.idleTimeout
    /\ mgr.objs[2].state = "active"
    /\ Gone(mgr, mgr.objs[1])

\* ------------------------------------------------------- stop() of a proxy
\* A started proxy under traffic on both sockets, with and without a stats
\* loop, and one call of stop() at any moment.
StopSetup ==
    [leg |-> "stop", videoFix |-> FALSE, inject |-> FALSE,
     env |-> Env({}, TRUE, 10)]

StopInit ==
    /\ cfg = StopSetup
    /\ proxy = newVideoProxy(peerLearningWindow, maxFrameWait, cfg.videoFix,
                             cfg.inject)
    /\ counters = videoCounters
    /\ session = [lastActivityNsec |-> 0, state |-> "created"]
    /\ videoDest = noAddr
    /\ now = 0
    /\ wire = <<>>
    /\ aIn = [pkt |-> <<>>, addr |-> noAddr, dest |-> noAddr, disp |-> "none",
              werr |-> FALSE, gap |-> 0]
    /\ prev = [proxy |-> proxy, counters |-> counters, frame |-> NoFrame]
    /\ door = [seq |-> cfg.env.seq0, sent |-> <<>>, discarded |-> {},
              out |-> <<>>, emitted |-> <<>>]
    /\ frame = NoFrame
    /\ sess = newSession
    /\ audio = [p |-> newAudioProxy(peerLearningWindow), c |-> audioCounters]
    /\ thr = idleThreads
    /\ log = emptyLog
    /\ mgr = newManager(0)
    /\ \E stats \in BOOLEAN : run = startedProxy(stats)
    /\ pool = newPool

\* What leaves the proxy's workers as they are.
RunFrame == UNCHANGED <<videoVars, legVars, mgr, pool>>

\* The socket a read loop reads from and the one it writes to.
ReadConn(w) == w

WriteConn(w) == IF w = "a" THEN "b" ELSE "a"

\* A wg.Wait() that does not count the stats loop.
wgWaitLoops(r) ==
    \A w \in {"a", "b"} : r.worker[w] \in {"none", "exited"}

\* p.wg.Wait() returns: every worker started has called wg.Done().
wgWait(r) ==
    \A w \in Workers : r.worker[w] \in {"none", "exited"}

\* A loop top that goes on to read whatever the context says.
selectNever(r, w) == [r EXCEPT !.worker[w] = "deadline"]

\* select { case <-p.ctx.Done(): return; default: } at the top of a read
\* loop.
selectCtx(r, w) ==
    IF r.ctx = "done" THEN [r EXCEPT !.worker[w] = "exited"]
    ELSE [r EXCEPT !.worker[w] = "deadline"]

SelectCtx(w) ==
    /\ run.worker[w] = "select"
    /\ w \in {"a", "b"}
    /\ run' = selectCtx(run, w)
    /\ RunFrame

\* conn.SetReadDeadline(time.Now().Add(500 * time.Millisecond)) in a loop.
LoopSetReadDeadline(w) ==
    /\ run.worker[w] = "deadline"
    /\ run' = [run EXCEPT !.worker[w] = "read",
                          !.conn[ReadConn(w)].deadline = "later"]
    /\ RunFrame

\* conn.ReadFromUDP returns: net.ErrClosed on a closed socket (the loop
\* returns); otherwise a datagram (got) if one has arrived, or the timeout
\* error at the deadline, which comes whether it was set to now or to
\* 500 ms ahead (the loop continues).
ReadFromUDP(w) ==
    /\ run.worker[w] = "read"
    /\ \E got \in BOOLEAN :
          run' = IF ~run.conn[ReadConn(w)].open
                 THEN [run EXCEPT !.worker[w] = "exited"]
                 ELSE IF got
                 THEN [run EXCEPT !.worker[w] = "handle",
                                  !.late = @ \/ run.stop = "returned"]
                 ELSE [run EXCEPT !.worker[w] = "select"]
    /\ RunFrame

\* The rest of the iteration: the datagram is counted and dropped or written
\* to the other socket.
HandleDatagram(w) ==
    /\ run.worker[w] = "handle"
    /\ run' = [run EXCEPT !.worker[w] = "select",
                          !.late = @ \/ run.stop = "returned"]
    /\ RunFrame

\* logStatsLoop: case <-p.ctx.Done(): the final statistics, and return.
StatsDone ==
    /\ run.worker.stats = "select"
    /\ run.ctx = "done"
    /\ run' = [run EXCEPT !.worker.stats = "exited"]
    /\ RunFrame

\* stop(): p.cancel()
StopCancel ==
    /\ run.stop = "idle"
    /\ run' = [run EXCEPT !.ctx = "done", !.stop = "deadlineA",
                          !.atCancel = run.worker]
    /\ RunFrame

\* stop(): aConn.SetReadDeadline(time.Now()), bConn.SetReadDeadline(time.Now())
StopSetReadDeadline ==
    /\ run.stop \in {"deadlineA", "deadlineB"}
    /\ run' = IF run.stop = "deadlineA"
              THEN [run EXCEPT !.conn.a.deadline = "now",
                               !.stop = "deadlineB"]
              ELSE [run EXCEPT !.conn.b.deadline = "now", !.stop = "wait"]
    /\ RunFrame

\* stop(): p.wg.Wait()
StopWait ==
    /\ run.stop = "wait"
    /\ wgWait(run)
    /\ run' = [run EXCEPT !.stop = "closeA"]
    /\ RunFrame

\* stop(): aConn.Close(), bConn.Close(), return
StopClose ==
    /\ run.stop \in {"closeA", "closeB"}
    /\ run' = IF run.stop = "closeA"
              THEN [run EXCEPT !.conn.a.open = FALSE, !.stop = "closeB"]
              ELSE [run EXCEPT !.conn.b.open = FALSE, !.stop = "returned"]
    /\ RunFrame

Loop(w) ==
    \/ SelectCtx(w)
    \/ LoopSetReadDeadline(w)
    \/ ReadFromUDP(w)
    \/ HandleDatagram(w)

Stopper ==
    \/ StopSetReadDeadline
    \/ StopWait
    \/ StopClose

StopNext ==
    \/ \E w \in {"a", "b"} : Loop(w)
    \/ StatsDone
    \/ StopCancel
    \/ Stopper

\* The scheduler runs every goroutine that can take a step, and a read
\* returns at its deadline at the latest.  When stop() is called is up to
\* its caller.
StopSpec ==
    /\ StopInit
    /\ [][StopNext]_vars
    /\ \A w \in {"a", "b"} : WF_vars(Loop(w))
    /\ WF_vars(StatsDone)
    /\ WF_vars(Stopper)

\* ------------------------------------------------------------------- C21
\* What holds at every moment of a stop(): a socket is closed only when
\* every worker has exited, stop() has returned only when every worker has
\* exited and both sockets are closed, and no worker reads or writes after
\* stop() has returned.
StopSafe ==
    /\ \A c \in {"a", "b"} :
          ~run.conn[c].open => \A w \in Workers :
                                  run.worker[w] \in {"none", "exited"}
    /\ run.stop = "returned" =>
          /\ \A w \in Workers : run.worker[w] \in {"none", "exited"}
          /\ ~run.conn.a.open
          /\ ~run.conn.b.open
    /\ ~run.late

\* C21: stop() always returns once called; when it returns both read loops
\* and the stats loop have exited; the sockets are closed only after every
\* worker has exited; and nothing is read or forwarded after the return.
C21_StopTerminatesAfterWorkers ==
    /\ [](StopSafe)
    /\ (run.stop # "idle") ~> (run.stop = "returned")

\* stop() has returned for a proxy with a stats loop that it found with one
\* loop blocked in a read and the other with a datagram in hand.
C21_Witness ==
    /\ run.stop = "returned"
    /\ run.atCancel.a = "read"
    /\ run.atCancel.b = "handle"
    /\ run.atCancel.stats = "select"
    /\ run.worker = [a |-> "exited", b |-> "exited", stats |-> "exited"]

\* ------------------------------------------------------------------ C22

CreateFailed ==
    /\ mgr'.call.create.n = mgr.call.create.n + 1
    /\ mgr'.call.create.err # ""

\* C22: a Create that fails, for want of four available ports or because one
\* of the four binds fails, adds no session, leaves no socket of the call
\* bound and leaves the allocator, available list and in-use set, as it was
\* before the call; it fails for want of ports exactly when fewer than four
\* are available.
C22_FailedCreateLeavesNoTrace ==
    [][CreateFailed =>
          /\ mgr'.sessions = mgr.sessions
          /\ mgr'.objs = mgr.objs
          /\ mgr'.allocator = mgr.allocator
          /\ mgr'.unowned = {}
          /\ (mgr'.call.create.err = "no available ports")
                 = (Len(mgr.allocator.available) < 4)]_vars

C22_Witness ==
    /\ mgr.call.create.err = "socket"
    /\ mgr.sessions = {1}
    /\ mgr.allocator.inUse = Range(mgr.objs[1].ports)
    /\ Len(mgr.allocator.available) = 4
    /\ mgr.unowned = {}

\* ------------------------------------------------- calls on a port allocator
\* An allocator over PoolMin..PoolMax and any sequence of Allocate and
\* Release calls on it.  Both methods run under p.mu, so concurrent calls
\* take effect one after the other, in some order.
MaxPoolCalls == 4

\* Counts asked of Allocate: negative, zero, up to one more than the range.
AllocCounts == (0 - 1)..(PoolMax - PoolMin + 2)

\* Arguments of Release: no port, one, or two, of the range and its two
\* neighbours, in any order, repeated or not.
ReleasePorts == (PoolMin - 1)..(PoolMax + 1)

ReleaseArgs ==
    {<<>>} \cup {<<x>> : x \in ReleasePorts}
           \cup {<<x, y>> : x \in ReleasePorts, y \in ReleasePorts}

AllocSetup ==
    [leg |-> "alloc", videoFix |-> FALSE, inject |-> FALSE,
     env |-> Env({}, TRUE, 10)]

AllocInit ==
    /\ cfg = AllocSetup
    /\ proxy = newVideoProxy(peerLearningWindow, maxFrameWait, cfg.videoFix,
                             cfg.inject)
    /\ counters = videoCounters
    /\ session = [lastActivityNsec |-> 0, state |-> "created"]
    /\ videoDest = noAddr
    /\ now = 0
    /\ wire = <<>>
    /\ aIn = [pkt |-> <<>>, addr |-> noAddr, dest |-> noAddr, disp |-> "none",
              werr |-> FALSE, gap |-> 0]
    /\ prev = [proxy |-> proxy, counters |-> counters, frame |-> NoFrame]
    /\ door = [seq |-> cfg.env.seq0, sent |-> <<>>, discarded |-> {},
              out |-> <<>>, emitted |-> <<>>]
    /\ frame = NoFrame
    /\ sess = newSession
    /\ audio = [p |-> newAudioProxy(peerLearningWindow), c |-> audioCounters]
    /\ thr = idleThreads
    /\ log = emptyLog
    /\ mgr = newManager(0)
    /\ run = startedProxy(FALSE)
    /\ pool = newPool

PoolFrame == UNCHANGED <<videoVars, legVars, mgr, run>>

\* A call p.Allocate(n).
AllocateCall ==
    /\ pool.calls < MaxPoolCalls
    /\ \E n \in AllocCounts :
          pool' = [p |-> Allocate(pool.p, n).p,
                   held |-> pool.held \cup Range(Allocate(pool.p, n).ports),
                   calls |-> pool.calls + 1,
                   last |-> [op |-> "allocate", n |-> n, ports |-> <<>>,
                             got |-> Allocate(pool.p, n).ports,
                             err |-> Allocate(pool.p, n).err,
                             before |-> [p |-> pool.p, held |-> pool.held]]]
    /\ PoolFrame

\* A call p.Release(ports).
ReleaseCall ==
    /\ pool.calls < MaxPoolCalls
    /\ \E ports \in ReleaseArgs :
          pool' = [p |-> Release(pool.p, ports),
                   held |-> pool.held \ Range(ports),
                   calls |-> pool.calls + 1,
                   last |-> [op |-> "release", n |-> 0, ports |-> ports,
                             got |-> <<>>, err |-> "",
                             before |-> [p |-> pool.p, held |-> pool.held]]]
    /\ PoolFrame

AllocNext ==
    \/ AllocateCall
    \/ ReleaseCall

AllocSpec == AllocInit /\ [][AllocNext]_vars

\* ------------------------------------------------------------------ C23

\* The n smallest members of a set of integers, ascending.
RECURSIVE Smallest(_, _)
Smallest(S, n) ==
    IF n = 0 \/ S = {} THEN <<>>
    ELSE <<CHOOSE x \in S : \A y \in S : x <= y>>
         \o Smallest(S \ {CHOOSE x \in S : \A y \in S : x <= y}, n - 1)

Allocated == pool.last.op = "allocate" /\ pool.last.err = ""

\* C23: a successful Allocate(n) returns exactly the n smallest ports
\* available at the call, in ascending order, and none of them is a port an
\* earlier Allocate returned and no Release was given since.
C23_AllocateReturnsSmallestFree ==
    Allocated =>
        /\ Len(pool.last.got) = pool.last.n
        /\ pool.last.got
               = Smallest(Range(pool.last.before.p.available), pool.last.n)
        /\ Range(pool.last.got) \cap pool.last.before.held = {}

\* Allocate(1) after a release that left a hole below the ports still held.
C23_Witness ==
    /\ Allocated
    /\ pool.last.n = 1
    /\ pool.last.got = <<PoolMin>>
    /\ pool.last.before.held = {PoolMin + 1}
    /\ pool.calls = 3

\* ------------------------------------------------------------------ C24

\* C24: after any sequence of Allocate and Release calls, the available list
\* and the in-use set are disjoint, together they are exactly min..max, and
\* the available list is strictly ascending.
C24_AllocatorPartition ==
    /\ Range(pool.p.available) \cap pool.p.inUse = {}
    /\ Range(pool.p.available) \cup pool.p.inUse = pool.p.min..pool.p.max
    /\ \A i \in 1..Len(pool.p.available), j \in 1..Len(pool.p.available) :
          i < j => pool.p.available[i] < pool.p.available[j]

\* Two ports given back in descending order, below a port that is free.
C24_Witness ==
    /\ pool.last.op = "release"
    /\ pool.last.ports = <<PoolMin + 1, PoolMin>>
    /\ pool.last.before.p.inUse = {PoolMin, PoolMin + 1, PoolMin + 2}
    /\ pool.p.available = <<PoolMin, PoolMin + 1, PoolMin + 3>>

\* ------------------------------------------------------------------ C25

\* C25: Allocate(n) fails with the invalid-request error when n <= 0 and
\* with ErrNoPortsAvailable when n exceeds the number of available ports,
\* and succeeds otherwise; a failed call returns no port and leaves the
\* allocator as it was.
C25_FailedAllocateTakesNothing ==
    pool.last.op = "allocate" =>
        /\ (pool.last.err = "invalid port request size") = (pool.last.n <= 0)
        /\ (pool.last.err = "no available ports")
               = /\ pool.last.n > 0
                 /\ pool.last.n > Len(pool.last.before.p.available)
        /\ pool.last.err \in {"", "invalid port request size",
                              "no available ports"}
        /\ pool.last.err # "" =>
               /\ pool.last.got = <<>>
               /\ pool.p = pool.last.before.p
               /\ pool.held = pool.last.before.held

\* A request for more ports than are left, while some are left.
C25_Witness ==
    /\ pool.last.op = "allocate"
    /\ pool.last.err = "no available ports"
    /\ Len(pool.last.before.p.available) = 2
    /\ pool.last.n = 3

\* ------------------------------------------------------------------ C26

Released == pool.last.op = "release"

\* C26: Release moves to the available list exactly the ports of its
\* argument that were in use, each once, and ignores the others; releasing
\* the same ports again changes nothing.
C26_ReleaseIgnoresNotInUse ==
    Released =>
        /\ pool.p.inUse = pool.last.before.p.inUse \ Range(pool.last.ports)
        /\ Range(pool.p.available)
               = Range(pool.last.before.p.available)
                    \cup (Range(pool.last.ports)
                             \cap pool.last.before.p.inUse)
        /\ Len(pool.p.available) = Cardinality(Range(pool.p.available))
        /\ Range(pool.last.ports) \cap pool.last.before.p.inUse = {}
               => pool.p = pool.last.before.p
        /\ Release(pool.p, pool.last.ports) = pool.p

\* One call that names a port in use twice and a port outside the range.
C26_Witness ==
    /\ Released
    /\ \E x \in pool.last.before.p.inUse :
          \/ pool.last.ports = <<x, x>>
          \/ pool.last.ports = <<x, PoolMax + 1>>
    /\ pool.last.before.p.available # <<>>

\* ------------------------------------------------- the order of the output
\* The A loop of a video proxy, raw, in fix mode and in fix mode with
\* injection, on a stream numbered without a gap: parameter sets, whole and
\* fragmented IDR frames, other payloads, a late datagram and a refused
\* write; the run keeps the record of the writes.
OrderArrivals ==
    { Arrival("sps", Short), Arrival("pps", Short), Arrival("idr", Short),
      Arrival("fus", Short), Arrival("fue", Short), Arrival("sei", Short),
      Arrival("sei", Long),
      [Arrival("idr", Short) EXCEPT !.werr = TRUE] }

OrderSetups ==
    { [videoFix |-> f, inject |-> i,
       env |-> [Env(OrderArrivals, FALSE, 10) EXCEPT !.history = TRUE]]
        : f \in BOOLEAN, i \in BOOLEAN }

OrderInit ==
    /\ cfg \in OrderSetups
    /\ proxy = newVideoProxy(peerLearningWindow, maxFrameWait, cfg.videoFix,
                             cfg.inject)
    /\ counters = videoCounters
    /\ session = [lastActivityNsec |-> 0, state |-> "created"]
    /\ videoDest = RelayAddr
    /\ now = 0
    /\ wire = <<>>
    /\ aIn = [pkt |-> <<>>, addr |-> noAddr, dest |-> noAddr, disp |-> "none",
              werr |-> FALSE, gap |-> 0]
    /\ prev = [proxy |-> proxy, counters |-> counters, frame |-> NoFrame]
    /\ door = [seq |-> cfg.env.seq0, sent |-> <<>>, discarded |-> {},
              out |-> <<>>, emitted |-> <<>>]
    /\ frame = NoFrame
    /\ sess = newSession
    /\ audio = [p |-> newAudioProxy(peerLearningWindow), c |-> audioCounters]
    /\ thr = idleThreads
    /\ log = emptyLog
    /\ mgr = newManager(0)
    /\ run = startedProxy(FALSE)
    /\ pool = newPool

OrderNext == RecvA

OrderSpec == OrderInit /\ [][OrderNext]_vars

\* ------------------------------------------------------------------ C27
\* The place of a received datagram in the order of reception: the doorphone
\* numbers its datagrams upwards from its first sequence number.
Pos(seq) == (seq + Pow16 - cfg.env.seq0) % Pow16

InOrder(i, j) == Pos(door.out[i].seq) < Pos(door.out[j].seq)

\* The datagram received under a sequence number.
Received(seq) ==
    door.sent[CHOOSE k \in 1..Len(door.sent) : SeqNo(door.sent[k]) = seq]

\* Forwarded datagram i went out at once, by the sendPacket that ends
\* handleVideoPacket.
SentThrough(i) == door.out[i].site = "pass"

\* Forwarded datagrams i and j are an SPS and a PPS:
\* appendPendingToFrameBuffer puts the pending SPS before the pending PPS,
\* whichever was received first.
PendingPair(i, j) ==
    /\ parseH264Packet(Received(door.out[i].seq)).info.IsSPS
    /\ parseH264Packet(Received(door.out[j].seq)).info.IsPPS

MaxClassified == 2

\* One NAL unit of type 1, 5, 6, 7, 8; FU-A fragments of an IDR slice: start,
\* middle, end, start and end at once; an FU-A start of a NAL unit of type 7.
ClassifyPayloads ==
    { <<65>>, <<101>>, <<6>>, <<103>>, <<104>>,
      <<124, 133>>, <<124, 5>>, <<124, 69>>, <<124, 197>>, <<124, 135>> }

ClassifyTimestamps == {<<0, 9000>>, WrapTS}

ClassifySetups ==
    { [videoFix |-> f, inject |-> FALSE, env |-> Env({}, FALSE, 10)]
        : f \in BOOLEAN }

ClassifyInit ==
    /\ cfg \in ClassifySetups
    /\ proxy = newVideoProxy(peerLearningWindow, maxFrameWait, cfg.videoFix,
                             cfg.inject)
    /\ counters = videoCounters
    /\ session = [lastActivityNsec |-> 0, state |-> "created"]
    /\ videoDest = RelayAddr
    /\ now = 0
    /\ wire = <<>>
    /\ aIn = [pkt |-> <<>>, addr |-> noAddr, dest |-> noAddr, disp |-> "none",
              werr |-> FALSE, gap |-> 0]
    /\ prev = [proxy |-> proxy, counters |-> counters, frame |-> NoFrame]
    /\ door = [seq |-> cfg.env.seq0, sent |-> <<>>, discarded |-> {},
              out |-> <<>>, emitted |-> <<>>]
    /\ frame = NoFrame
    /\ sess = newSession
    /\ audio = [p |-> newAudioProxy(peerLearningWindow), c |-> audioCounters]
    /\ thr = idleThreads
    /\ log = emptyLog
    /\ mgr = newManager(0)
    /\ run = startedProxy(FALSE)
    /\ pool = newPool

\* One iteration of loopAIn on a datagram of the doorphone.
RecvClassified ==
    /\ counters.aInPkts < MaxClassified
    /\ \E payload \in ClassifyPayloads, marker \in BOOLEAN,
          ts \in ClassifyTimestamps :
          Arrive(Arrival("any", Short), door.seq,
                 buildRTPPacket(marker, 96, door.seq, ts, TestSSRC, payload))

ClassifyNext == RecvClassified

ClassifySpec == ClassifyInit /\ [][ClassifyNext]_vars

\* ------------------------------------------------------------------ C28
\* The latest datagram with another marker bit and another RTP timestamp.
Restamped(marker, ts) == setTimestamp(setMarker(aIn.pkt, marker), ts)

\* The extremes of the 32-bit timestamp.
OtherTimestamps == {<<0, 0>>, <<Pow16 - 1, Pow16 - 1>>}

\* The payload of the latest datagram is one NAL unit of type 1..5.
SingleSlice == (Payload(aIn.pkt)[1] % 32) \in 1..5

\* The payload of the latest datagram is an FU-A fragment of a NAL unit of
\* type 1..5, with the S bit, with the E bit.
FUSlice ==
    /\ Payload(aIn.pkt)[1] % 32 = 28
    /\ (Payload(aIn.pkt)[2] % 32) \in 1..5

FUStartBit == (Payload(aIn.pkt)[2] \div 128) % 2 = 1

FUEndBit == (Payload(aIn.pkt)[2] \div 64) % 2 = 1

\* C28: a datagram with a single-NAL slice (type 1..5) is frame start and
\* frame end, an FU-A fragment of a slice is frame start iff its S bit is set
\* and frame end iff its E bit is set, nothing else is either, the frame
\* counters of the fix-mode loop count accordingly, and the classification
\* is the same under every marker bit and RTP timestamp.
C28_BoundaryFromPayloadOnly ==
    LET got == In
        start == SingleSlice \/ (FUSlice /\ FUStartBit)
        end == SingleSlice \/ (FUSlice /\ FUEndBit)
    IN  got.ok =>
            /\ isFrameStart(got.info) = start
            /\ isFrameEnd(got.info) = end
            /\ \A marker \in BOOLEAN, ts \in OtherTimestamps :
                  LET other == parseH264Packet(Restamped(marker, ts))
                  IN  other.ok /\ other.info = got.info
            /\ proxy.fixEnabled =>
                  /\ counters.videoFramesStarted
                         = prev.counters.videoFramesStarted
                             + (IF start THEN 1 ELSE 0)
                  /\ counters.videoFramesEnded
                         = prev.counters.videoFramesEnded
                             + (IF end THEN 1 ELSE 0)

\* An FU-A start fragment that came with the marker bit set and was counted
\* as a frame start and not as a frame end, after a single-NAL slice.
C28_Witness ==
    /\ In.ok
    /\ proxy.fixEnabled
    /\ FUSlice /\ FUStartBit /\ ~FUEndBit
    /\ Marker(aIn.pkt)
    /\ counters.videoFramesStarted = 2
    /\ counters.videoFramesEnded = 1

\* ------------------------------------------------------------------ C29
\* The latest datagram, a slice, is in the frame buffer or went out in a
\* flush.
SliceBuffered ==
    \/ \E k \in 1..Len(proxy.frameBuffer) : proxy.frameBuffer[k] = aIn.pkt
    \/ \E i \in 1..Len(wire) :
          /\ wire[i].site \in FlushSites
          /\ InputSeq(i) = SeqNo(aIn.pkt)
          /\ Body(wire[i].pkt) = Body(aIn.pkt)

\* C29: in fix mode a datagram classified as a slice is appended to the
\* frame buffer and leaves in a flush only; it is never written by the
\* sendPacket that ends handleVideoPacket, with the marker and the timestamp
\* it came with.
C29_SliceOnlyThroughFlush ==
    (Handled /\ In.ok /\ In.info.IsSlice) =>
        /\ SliceBuffered
        /\ \A i \in 1..Len(wire) : wire[i].site # "pass"

\* ------------------------------------------------------------------ C30
\* The doorphone's datagrams so far were numbered without a gap, and each
\* of them has been written to the B socket.
ConsecutiveInput ==
    /\ \A k \in 1..(Len(door.sent) - 1) :
          SeqNo(door.sent[k + 1]) = (SeqNo(door.sent[k]) + 1) % Pow16
    /\ Len(door.out) = Len(door.sent)

\* Every packet written that was not injected is a received datagram under
\* its sequence number plus seqDelta, and seqDelta is the number of packets
\* injected so far.
RenumberedByDelta ==
    /\ \A i \in 1..Len(wire) :
          (wire[i].site # "inject") =>
              \E k \in 1..Len(door.sent) :
                  /\ SeqNo(door.sent[k]) = InputSeq(i)
                  /\ Body(door.sent[k]) = Body(wire[i].pkt)
    /\ proxy.seqDelta
           = (counters.videoInjectedSPS + counters.videoInjectedPPS) % Pow16

NoDuplicateSeq ==
    \A i \in 1..Len(door.emitted), j \in 1..Len(door.emitted) :
        i < j => door.emitted[i].seq # door.emitted[j].seq

ConsecutiveOutput ==
    \A i \in 1..(Len(door.emitted) - 1) :
        door.emitted[i + 1].seq = (door.emitted[i].seq + 1) % Pow16

\* C30: with injection enabled every packet that was not injected leaves
\* with its input sequence number plus seqDelta, the number of packets
\* injected so far, and for input numbered without a gap the sequence
\* numbers written to the B socket are consecutive in the order written,
\* none of them used twice.
C30_ConsecutiveOutputSeq ==
    proxy.injectCachedSPSPPS =>
        /\ RenumberedByDelta
        /\ ConsecutiveInput => (ConsecutiveOutput /\ NoDuplicateSeq)

\* ------------------------------------------------------------------ C31
\* The places of the frame-start slices in the frame buffer.
FrameStartsBuffered ==
    {k \in 1..Len(proxy.frameBuffer) :
        LET pk == parseH264Packet(proxy.frameBuffer[k])
        IN  pk.ok /\ isFrameStart(pk.info)}

\* C31: the frame buffer holds at most one frame-start slice, and nothing
\* but the parameter sets that were pending comes before it: whatever was
\* buffered when it arrived was flushed first.  A raw proxy buffers nothing.
C31_OneFrameStartBuffered ==
    /\ Cardinality(FrameStartsBuffered) <= 1
    /\ \A k \in FrameStartsBuffered :
          \A j \in 1..(k - 1) : IsParameterSet(proxy.frameBuffer[j])
    /\ ~proxy.fixEnabled => proxy.frameBuffer = <<>>

\* A frame start arrived while a frame was being assembled: that frame went
\* out, and the buffer holds the new start alone.
C31_Witness ==
    /\ Handled
    /\ In.ok /\ isFrameStart(In.info) /\ ~isFrameEnd(In.info)
    /\ prev.proxy.frameBufferActive
    /\ Len(prev.proxy.frameBuffer) >= 1
    /\ Len(wire) >= 1 /\ wire[1].site = "flush"
    /\ proxy.frameBuffer = <<aIn.pkt>>

\* ------------------------------------------------------------------ C32
\* C32: in fix mode every SPS or PPS written to the B socket, flushed or
\* injected, has the marker bit clear, and a packet written with the marker
\* bit set is a slice and the last packet of a flush.
C32_MarkerOnlyOnLastSlice ==
    Handled =>
        \A i \in 1..Len(wire) :
            /\ IsParameterSet(wire[i].pkt) => ~Marker(wire[i].pkt)
            /\ Marker(wire[i].pkt) =>
                  /\ IsSlicePacket(wire[i].pkt)
                  /\ wire[i].site \in FlushSites
                  /\ ~SameFlush(i)

\* ------------------------------------------------------------------ C33
\* handleVideoPacket ran on a datagram that is neither a slice nor a
\* parameter set: no RTP or H.264 could be read from it, or it carries
\* another NAL type.
Unfixable ==
    /\ Handled
    /\ ~(In.ok /\ (In.info.IsSlice \/ In.info.IsSPS \/ In.info.IsPPS))

\* The latest datagram went out as the last write of its handling, to the
\* destination loaded for it, as the given bytes; before it only a forced
\* flush wrote, and without one the assembler is as it was.
SentThroughAs(bytes) ==
    /\ Len(wire) >= 1
    /\ wire[Len(wire)].site = "pass"
    /\ wire[Len(wire)].dest = aIn.dest
    /\ wire[Len(wire)].pkt = bytes
    /\ \A i \in 1..(Len(wire) - 1) : wire[i].site = "forced"
    /\ Len(wire) = 1 =>
          /\ proxy.frameBuffer = prev.proxy.frameBuffer
          /\ proxy.frameBufferActive = prev.proxy.frameBufferActive

\* The datagram with the sequence number sendPacket gives it: its own plus
\* seqDelta when injection is enabled.
Renumbered(packet, delta) ==
    IF proxy.injectCachedSPSPPS /\ Len(packet) >= 4
    THEN PutBytes(packet, 2, Bytes16((Uint16(packet, 2) + delta) % Pow16))
    ELSE packet

\* C33 as stated: the datagram is sent through with all its bytes unchanged.
C33_SentThroughUnchanged ==
    Unfixable => SentThroughAs(aIn.pkt)

\* C33, amended: the datagram is sent through at once, after the timeout
\* check, whatever the assembler state, with marker, timestamp and payload
\* unchanged; its sequence number is unchanged with injection disabled and
\* increased by seqDelta with injection enabled.
C33_SentThroughRenumbered ==
    Unfixable => SentThroughAs(Renumbered(aIn.pkt, prev.proxy.seqDelta))

\* A datagram of another NAL type, marker set, sent through after an
\* injection, under another sequence number.
C33_Witness ==
    /\ Unfixable
    /\ In.ok
    /\ Marker(aIn.pkt)
    /\ prev.proxy.seqDelta > 0
    /\ Len(wire) = 1
    /\ wire[1].ok
    /\ wire[1].pkt # aIn.pkt
    /\ Marker(wire[1].pkt)
    /\ TS(wire[1].pkt) = TS(aIn.pkt)

\* ------------------------------------------------------------------ C34
\* C34: between packet handlings the frame buffer is non-empty exactly when
\* the assembler is active.
C34_BufferedIffActive ==
    (Len(proxy.frameBuffer) > 0) = proxy.frameBufferActive

\* A frame is being assembled after a forced flush and after a reset of
\* the assembler for want of a destination.
C34_Witness ==
    /\ proxy.fixEnabled
    /\ proxy.frameBufferActive
    /\ Len(proxy.frameBuffer) >= 2
    /\ \/ counters.videoForcedFlushes >= 1
       \/ door.discarded # {}

\* ------------------------------------------------- the manager's reaper
\* A manager built by NewManager with an idle timeout above 0: the reaper
\* runs removeIdleSessions at every tick of its ticker while Create, Delete
\* and Cleanup are called and the sessions receive datagrams.  The clock
\* advances in steps of ReapUnit; a pass of the reaper runs at the instant
\* of its tick and takes no time of the clock.
ReapUnit == Second \div 2

\* The idle timeouts of the managers with a reaper.
ReapTimeouts == {Second, 3 * Second}

\* The ticks of the reaper's ticker, and the calls of Create, Delete and
\* Cleanup on a manager with a reaper.
MaxPasses == 2

MaxReapCalls == 3

\* An interval of the whole idle timeout.
reapIntervalWhole(idleTimeout) == idleTimeout

\* reapIdleSessions: the interval of the ticker.
reapInterval(idleTimeout) ==
    IF idleTimeout \div 2 < Second THEN Second ELSE idleTimeout \div 2

\* newManagerWithDeps with the reaper started, for the idle timeouts given.
ReapStart(timeouts) ==
    /\ cfg = MgrSetup
    /\ proxy = newVideoProxy(peerLearningWindow, maxFrameWait, cfg.videoFix,
                             cfg.inject)
    /\ counters = videoCounters
    /\ session = [lastActivityNsec |-> 0, state |-> "created"]
    /\ videoDest = noAddr
    /\ now = Second
    /\ wire = <<>>
    /\ aIn = [pkt |-> <<>>, addr |-> noAddr, dest |-> noAddr, disp |-> "none",
              werr |-> FALSE, gap |-> 0]
    /\ prev = [proxy |-> proxy, counters |-> counters, frame |-> NoFrame]
    /\ door = [seq |-> cfg.env.seq0, sent |-> <<>>, discarded |-> {},
              out |-> <<>>, emitted |-> <<>>]
    /\ frame = NoFrame
    /\ sess = newSession
    /\ audio = [p |-> newAudioProxy(peerLearningWindow), c |-> audioCounters]
    /\ thr = idleThreads
    /\ log = emptyLog
    /\ \E idleTimeout \in timeouts :
          mgr = [newManager(idleTimeout)
                    EXCEPT !.calls = MaxCalls - MaxReapCalls,
                           !.nextTick = now + reapInterval(idleTimeout)]
    /\ run = startedProxy(FALSE)
    /\ pool = newPool

ReapInit == ReapStart({Second})

IdleInit == ReapStart(ReapTimeouts)

\* The clock advances up to the next tick of the ticker.
AdvanceClock ==
    /\ mgr.call.reaper.pc = "idle"
    /\ now < mgr.nextTick
    /\ mgr.ticks < MaxPasses
    /\ now' = now + ReapUnit
    /\ UNCHANGED mgr
    /\ MgrFrame

\* reapIdleSessions at a tick: removeIdleSessions(m.now()) under the lock;
\* the first of the sessions it found idle is stopped next.
Reap ==
    /\ mgr.call.reaper.pc = "idle"
    /\ now = mgr.nextTick
    /\ IF expired(mgr, now) = {}
       THEN mgr' = [mgr EXCEPT !.ticks = @ + 1,
                                !.nextTick = @ + reapInterval(mgr.idleTimeout),
                                !.call.reaper =
                                   [pc |-> "idle", n |-> @.n + 1,
                                    expired |-> {}, id |-> 0]]
       ELSE \E id \in expired(mgr, now) :
               mgr' = [removeIdleSessions(mgr, expired(mgr, now))
                          EXCEPT !.ticks = @ + 1,
                                 !.nextTick =
                                     @ + reapInterval(mgr.idleTimeout),
                                 !.call.reaper =
                                   [pc |-> "audio", n |-> @.n,
                                    expired |-> expired(mgr, now) \ {id},
                                    id |-> id]]
    /\ UNCHANGED now
    /\ MgrFrame

ReapNext ==
    \/ Create \/ AdvanceClock \/ Activity
    \/ Delete \/ Cleanup \/ Reap
    \/ StopAudioProxy \/ StopVideoProxy
    \/ ReleaseDeleted \/ ReleaseExpired

ReapSpec == ReapInit /\ [][ReapNext]_vars

\* The reaper alone: sessions are created and receive datagrams, and nothing
\* but the reaper removes them.
IdleNext ==
    \/ Create \/ AdvanceClock \/ Activity \/ Reap
    \/ StopAudioProxy \/ StopVideoProxy \/ ReleaseExpired

\* The clock advances, the ticker fires, and the reaper's goroutine goes on
\* to the end of stopSession.
IdleFairness ==
    /\ WF_vars(AdvanceClock)
    /\ WF_vars(Reap)
    /\ WF_vars(StopAudioProxy)
    /\ WF_vars(StopVideoProxy)
    /\ WF_vars(ReleaseExpired)

IdleSpec == IdleInit /\ [][IdleNext]_vars /\ IdleFairness

\* ------------------------------------------------------------------- C38
\* The time since the last activity of a session.
IdleFor(id) == now - mgr.objs[id].lastActivityNsec

\* One reaper interval: max(idle_timeout / 2, 1 s).
ReaperInterval ==
    IF mgr.idleTimeout \div 2 > Second THEN mgr.idleTimeout \div 2 ELSE Second

\* The session is in the table and has been idle for the idle timeout.
IdleInTable(id) ==
    id \in mgr.sessions /\ IdleFor(id) >= mgr.idleTimeout

\* The session has received a datagram since.
ActiveAgain(id) ==
    id \in mgr.sessions /\ IdleFor(id) < mgr.idleTimeout

Holding(m, c, id) ==
    /\ m.call[c].pc # "idle"
    /\ \/ m.call[c].id = id
       \/ c # "delete" /\ id \in m.call[c].expired

Holders(m, id) == {c \in Stoppers : Holding(m, c, id)}

\* Every session is stopped and released by the one caller that took it out
\* of the table: a session in the table is held by nobody and nothing of it
\* is stopped or released; a session out of the table is held by exactly one
\* caller until its ports are released, and by nobody after; no proxy is
\* stopped twice and no session's ports are released twice.
OnceEach(m) ==
    \A id \in SessionIDs :
        LET s == m.objs[id]
        IN  /\ s.stops.audio <= 1
            /\ s.stops.video <= 1
            /\ s.released <= 1
            /\ s.state \in {"created", "active"} =>
                  /\ id \in m.sessions
                  /\ Holders(m, id) = {}
                  /\ s.stops = [audio |-> 0, video |-> 0]
                  /\ s.released = 0
            /\ s.state = "closing" =>
                  /\ id \notin m.sessions
                  /\ Cardinality(Holders(m, id)) = 1 - s.released
                  /\ s.released = 1 =>
                        s.stops = [audio |-> 1, video |-> 1]
            /\ s.state = "none" => Holders(m, id) = {}

\* C35: whatever the interleaving of Delete, Cleanup and the reaper on a
\* session, exactly one of them takes it out of the table and holds it, its
\* proxies are stopped once and its ports released once, and a Delete of a
\* session that another caller has removed returns false at once and
\* touches nothing.
C35_RemovedStoppedReleasedOnce ==
    /\ []OnceEach(mgr)
    /\ [][
       /\ DeleteCalled /\ mgr'.call.delete.id \notin mgr.sessions =>
            /\ mgr'.call.delete.pc = "idle"
            /\ ~mgr'.call.delete.ok
            /\ mgr'.objs = mgr.objs
            /\ mgr'.allocator = mgr.allocator
       /\ DeleteStopped =>
            /\ mgr'.call.delete.ok
            /\ mgr'.objs[mgr.call.delete.id].released = 1
      ]_vars

\* The reaper is stopping the session it removed, the audio proxy stopped
\* and the video proxy still running, while a Delete of that session has
\* returned false and a Cleanup has found nothing to remove.
C35_Witness ==
    /\ mgr.call.reaper.pc = "video"
    /\ mgr.call.reaper.id = 1
    /\ mgr.objs[1].stops = [audio |-> 1, video |-> 0]
    /\ mgr.call.delete.pc = "idle"
    /\ mgr.call.delete.n = 1
    /\ mgr.call.delete.id = 1
    /\ ~mgr.call.delete.ok
    /\ mgr.call.cleanup.pc = "idle"
    /\ mgr.call.cleanup.n = 1
    /\ mgr.call.cleanup.id = 0

\* ------------------------------------------------------------------- C36
\* The sessions that are live or still being stopped: in the table, or out
\* of it with their ports not released yet.
Unreleased(m) ==
    {id \in SessionIDs :
        m.objs[id].state # "none" /\ m.objs[id].released = 0}

\* C36: no port belongs to two sessions that are live or still being
\* stopped; the ports of such a session are in use and not available; a
\* session whose ports have been released has both proxies stopped and no
\* socket open, so no available port has an open socket.
C36_PortsReleasedAfterSocketsClosed ==
    /\ \A a \in Unreleased(mgr) : \A b \in Unreleased(mgr) \ {a} :
          Range(mgr.objs[a].ports) \cap Range(mgr.objs[b].ports) = {}
    /\ \A id \in Unreleased(mgr) :
          /\ Range(mgr.objs[id].ports) \subseteq mgr.allocator.inUse
          /\ Range(mgr.objs[id].ports)
                \cap Range(mgr.allocator.available) = {}
    /\ \A id \in SessionIDs :
          mgr.objs[id].released > 0 =>
              /\ mgr.objs[id].audioProxy = "stopped"
              /\ mgr.objs[id].videoProxy = "stopped"
              /\ mgr.objs[id].open = {}
    /\ \A id \in SessionIDs :
          mgr.objs[id].open \cap Range(mgr.allocator.available) = {}
    /\ mgr.unowned \cap Range(mgr.allocator.available) = {}

\* A session is being stopped, one proxy stopped and the other's sockets
\* still open, next to a live session on other ports, and a third session
\* stopped and released earlier had the ports the live one has now.
C36_Witness ==
    \E a \in SessionIDs : \E b \in SessionIDs : \E c \in SessionIDs :
        /\ mgr.objs[a].state = "closing"
        /\ mgr.objs[a].released = 1
        /\ b \in mgr.sessions
        /\ mgr.objs[b].ports = mgr.objs[a].ports
        /\ mgr.objs[c].state = "closing"
        /\ mgr.objs[c].released = 0
        /\ mgr.objs[c].audioProxy = "stopped"
        /\ mgr.objs[c].videoProxy = "running"
        /\ Cardinality(mgr.objs[c].open) = 2

\* ------------------------------------------------------------------- C37
\* The moves of a session's state.
StateMoves ==
    {<<"none", "created">>, <<"created", "active">>,
     <<"created", "closing">>, <<"active", "closing">>}

\* C37: a session's state moves only from created to active, which a
\* received packet does without taking the session out of the table, and
\* from created or active to closing, which happens as the session leaves
\* the table; a received packet leaves no session created; a closing
\* session stays closing, and every session in the table is created or
\* active.
C37_StateOnlyForward ==
    /\ [](\A id \in mgr.sessions :
             mgr.objs[id].state \in {"created", "active"})
    /\ [][mgr'.objs # mgr.objs => \A id \in SessionIDs :
          LET a == mgr.objs[id]
              b == mgr'.objs[id]
          IN  /\ a.state # b.state => <<a.state, b.state>> \in StateMoves
              /\ a.state = "created" /\ b.state = "active" =>
                    /\ b.lastActivityNsec = now
                    /\ id \in mgr'.sessions
              /\ a.state # "closing" /\ b.state = "closing" =>
                    /\ id \in mgr.sessions
                    /\ id \notin mgr'.sessions
              /\ a.state = "created"
                    /\ b.lastActivityNsec # a.lastActivityNsec =>
                    b.state = "active"
      ]_vars

\* A session removed as idle has received a packet since, one of its
\* proxies still running, and is closing.
C37_Witness ==
    \E id \in SessionIDs : \E c \in {"cleanup", "reaper"} :
        /\ Holding(mgr, c, id)
        /\ mgr.objs[id].state = "closing"
        /\ mgr.objs[id].videoProxy = "running"
        /\ mgr.objs[id].lastActivityNsec = now

\* ------------------------------------------------------------------- C39
\* The parameter sets the video proxy has injected.
InjectedSets == counters.videoInjectedSPS + counters.videoInjectedPPS

Contiguous(ports) ==
    \A i \in 2..Len(ports) : ports[i] = ports[i - 1] + 1

\* Each port is above the previous one.
Ascending(ports) ==
    \A i \in 2..Len(ports) : ports[i] > ports[i - 1]

\* C40 as stated: the ports a successful Allocate(n) returns are contiguous
\* as well as ascending.
C40_AllocateContiguous ==
    Allocated =>
        /\ Ascending(pool.last.got)
        /\ Contiguous(pool.last.got)

\* C40, amended: the ports a successful Allocate(n) returns are ascending,
\* and they are contiguous exactly when no port in use at the call lies
\* between the first and the last of them.
C40_ContiguousUnlessFragmented ==
    Allocated =>
        /\ Ascending(pool.last.got)
        /\ Contiguous(pool.last.got)
              = (\A q \in pool.last.before.p.inUse :
                    ~(/\ pool.last.got[1] < q
                      /\ q < pool.last.got[Len(pool.last.got)]))

\* Allocate(3), Release of the second port, Allocate(2): the second port and
\* the fourth.
C40_Witness ==
    /\ Allocated
    /\ pool.calls = 3
    /\ pool.last.n = 2
    /\ pool.last.got = <<PoolMin + 1, PoolMin + 3>>
    /\ pool.last.before.p.inUse = {PoolMin, PoolMin + 2}

====
